---------------------------- MODULE Spec2Model ----------------------------
(***************************************************************************)
(* A model of the quiz-answer endpoint of sensai-ai                        *)
(* (src/api/routes/assessment.py) and of the two-step SAQ evaluator it     *)
(* calls (src/api/services/saq_evaluator.py).                              *)
(*                                                                         *)
(* Text is a sequence of one-character strings, so that lower(), strip(),  *)
(* split() and the substring test are computed as Python computes them.    *)
(* Text whose characters never matter (a fixed message, the words the      *)
(* model wrote) is a one-element sequence holding the whole message.       *)
(* Scores are hundredths: 0.6 is 60, 0.85 is 85.                           *)
(***************************************************************************)
EXTENDS Integers, Sequences, FiniteSets, TLC

(***************************************************************************)
(* Bounds of the exploration.                                              *)
(***************************************************************************)
\* Requests that can be in flight at once on the event loop.
MaxInFlight == 2
\* Largest current_score / total_questions_answered a client submits.
MaxScore == 1

(***************************************************************************)
(* Text.                                                                   *)
(***************************************************************************)
\* Python's None for an Optional[str] field.
None == <<"<None>">>

\* What the model wrote when a free-text call succeeds.
ModelText == <<"<model text>">>

IsSpace(c) == c \in {" ", "\t", "\n"}

lower_char(c) ==
    CASE c = "A" -> "a" [] c = "B" -> "b" [] c = "C" -> "c" [] c = "D" -> "d"
      [] c = "E" -> "e" [] c = "F" -> "f" [] c = "G" -> "g" [] c = "H" -> "h"
      [] c = "I" -> "i" [] c = "J" -> "j" [] c = "K" -> "k" [] c = "L" -> "l"
      [] c = "M" -> "m" [] c = "N" -> "n" [] c = "O" -> "o" [] c = "P" -> "p"
      [] c = "Q" -> "q" [] c = "R" -> "r" [] c = "S" -> "s" [] c = "T" -> "t"
      [] c = "U" -> "u" [] c = "V" -> "v" [] c = "W" -> "w" [] c = "X" -> "x"
      [] c = "Y" -> "y" [] c = "Z" -> "z" [] OTHER -> c

\* str.lower()
lower(s) == [i \in 1..Len(s) |-> lower_char(s[i])]

\* str.strip(): leading and trailing whitespace removed.
strip(s) ==
    LET keep == {i \in 1..Len(s) : ~IsSpace(s[i])}
    IN  IF keep = {} THEN <<>>
        ELSE LET lo == CHOOSE i \in keep : \A j \in keep : i <= j
                 hi == CHOOSE i \in keep : \A j \in keep : j <= i
             IN  SubSeq(s, lo, hi)

\* set(str.split()): the maximal runs of non-whitespace characters.
split_set(s) ==
    LET starts == {i \in 1..Len(s) :
                      ~IsSpace(s[i]) /\ (i = 1 \/ IsSpace(s[i - 1]))}
        ends == {j \in 1..Len(s) :
                    ~IsSpace(s[j]) /\ (j = Len(s) \/ IsSpace(s[j + 1]))}
    IN  { SubSeq(s, i, CHOOSE j \in ends :
                          j >= i /\ \A k \in ends : k >= i => j <= k) :
            i \in starts }

\* Python's `a in b` for strings.
is_substring(a, b) ==
    \/ Len(a) = 0
    \/ \E i \in 1..Len(b) :
          /\ i + Len(a) - 1 <= Len(b)
          /\ SubSeq(b, i, i + Len(a) - 1) = a

stop_words ==
    { <<"t", "h", "e">>, <<"a">>, <<"a", "n">>, <<"a", "n", "d">>,
      <<"o", "r">>, <<"b", "u", "t">>, <<"i", "n">>, <<"o", "n">>,
      <<"a", "t">>, <<"t", "o">>, <<"f", "o", "r">>, <<"o", "f">>,
      <<"w", "i", "t", "h">>, <<"b", "y">>, <<"i", "s">>, <<"a", "r", "e">>,
      <<"w", "a", "s">>, <<"w", "e", "r", "e">>, <<"b", "e">>,
      <<"b", "e", "e", "n">>, <<"b", "e", "i", "n", "g">>,
      <<"h", "a", "v", "e">>, <<"h", "a", "s">>, <<"h", "a", "d">>,
      <<"d", "o">>, <<"d", "o", "e", "s">>, <<"d", "i", "d">>,
      <<"w", "i", "l", "l">>, <<"w", "o", "u", "l", "d">>,
      <<"c", "o", "u", "l", "d">>, <<"s", "h", "o", "u", "l", "d">> }

NoIdealAnswer ==
    <<"N", "o", " ", "i", "d", "e", "a", "l", " ", "a", "n", "s", "w", "e", "r",
      " ", "p", "r", "o", "v", "i", "d", "e", "d">>

(***************************************************************************)
(* The question bank a client submits, and what it can answer.             *)
(***************************************************************************)
HotGas == <<"H", "o", "t", " ", "g", "a", "s">>
Gas == <<"g", "a", "s">>
Empty == <<>>

\* One SAQ, three MCQs (one option flagged correct, two flagged, none
\* flagged), and a last SAQ that has no ideal answer.
QuestionBank ==
    << [question_id |-> "q1", question_type |-> "saq",
        mcq_options |-> <<>>,
        ideal_answer |-> <<"h", "o", "t", " ", "g", "a", "s">>],
       [question_id |-> "q2", question_type |-> "mcq",
        mcq_options |-> << [text |-> Gas, is_correct |-> FALSE],
                           [text |-> HotGas, is_correct |-> TRUE] >>,
        ideal_answer |-> None],
       [question_id |-> "q4", question_type |-> "mcq",
        mcq_options |-> << [text |-> Gas, is_correct |-> TRUE],
                           [text |-> HotGas, is_correct |-> TRUE] >>,
        ideal_answer |-> None],
       [question_id |-> "q5", question_type |-> "mcq",
        mcq_options |-> << [text |-> Gas, is_correct |-> FALSE],
                           [text |-> HotGas, is_correct |-> FALSE] >>,
        ideal_answer |-> None],
       [question_id |-> "q3", question_type |-> "saq",
        mcq_options |-> <<>>,
        ideal_answer |-> None] >>

\* The answers a client submits: all ideal words, half of them, none.
Answers == {HotGas, Gas, Empty}

\* The question ids a client submits: the first two questions of the bank,
\* its last two, and an unknown id.
QuestionIds == {"q1", "q2", "q5", "q3", "qx"}

\* The session ids a client submits; NoSession is a request without one.
NoSession == "<no session>"
SessionIds == {"s1", NoSession}

Categories == {"correct", "partially_correct", "incorrect"}


(***************************************************************************)
(* models.py: the result shape the semantic call must validate against.    *)
(***************************************************************************)
\* SemanticEvaluationResult: correctness in [0, 1], a category of the Literal.
SemanticEvaluationResultValid(out) ==
    /\ out.correctness >= 0
    /\ out.correctness <= 100
    /\ out.feedback_category \in Categories

\* What the semantic call can end with: an error of the call, or an output
\* (whose score and category the model chooses freely, valid or not).
RawScores == {-1, 59, 60, 89, 90, 101}
RawCategories == Categories \cup {"other"}
SemanticCallOutcomes ==
    [raises : {TRUE}, correctness : {0}, feedback_category : {"other"}]
      \cup [raises : {FALSE}, correctness : RawScores,
            feedback_category : RawCategories]

\* What a free-text call (hint, explanation, MCQ explanation) can end with.
TextCallOutcomes == {"ok", "raise"}

NoResult == [correctness |-> -1, feedback_category |-> "none"]

(***************************************************************************)
(* saq_evaluator.py                                                        *)
(***************************************************************************)
\* A semantic_evaluation that substitutes a default result for a failed call.
semantic_evaluation_default(out) ==
    IF ~out.raises /\ SemanticEvaluationResultValid(out)
    THEN [raised |-> FALSE,
          result |-> [correctness |-> out.correctness,
                      feedback_category |-> out.feedback_category]]
    ELSE [raised |-> FALSE,
          result |-> [correctness |-> 50,
                      feedback_category |-> "partially_correct"]]

\* A semantic_evaluation whose result shape does not bound the score.
semantic_evaluation_unbounded_score(out) ==
    IF ~out.raises /\ out.feedback_category \in Categories
    THEN [raised |-> FALSE,
          result |-> [correctness |-> out.correctness,
                      feedback_category |-> out.feedback_category]]
    ELSE [raised |-> TRUE, result |-> NoResult]

\* semantic_evaluation: the validated result, or the exception it re-raises.
semantic_evaluation(out) ==
    IF ~out.raises /\ SemanticEvaluationResultValid(out)
    THEN [raised |-> FALSE,
          result |-> [correctness |-> out.correctness,
                      feedback_category |-> out.feedback_category]]
    ELSE [raised |-> TRUE, result |-> NoResult]

NumCorrectResponses == 5

\* _generate_correct_feedback: random.choice of five fixed strings.
generate_correct_feedback(choice) ==
    CASE choice = 1 -> <<"Excellent! You've got it exactly right.">>
      [] choice = 2 -> <<"Perfect answer! You clearly understand the concept.">>
      [] choice = 3 -> <<"Spot on! That's exactly what I was looking for.">>
      [] choice = 4 -> <<"Outstanding! Your answer demonstrates complete understanding.">>
      [] OTHER -> <<"Exactly right! Well done.">>

HintFallback ==
    <<"You're on the right track! Think about what else might be important to include in your answer.">>

\* _generate_hint: the model's text, or the fixed hint when the call raises.
generate_hint(call) ==
    IF call = "ok" THEN strip(ModelText) ELSE HintFallback

\* _generate_incorrect_feedback: the model's text and the answer, or the fixed
\* sentence when the call raises.
generate_incorrect_feedback(call, ideal_answer) ==
    IF call = "ok"
    THEN strip(ModelText) \o <<"\n\nThe correct answer is: ">> \o ideal_answer
    ELSE <<"Not quite right. The correct answer is: ">> \o ideal_answer
           \o <<". Please review the material and try again.">>

CorrectThreshold == 90
PartialThreshold == 60

\* A feedback stage that calls the model in its correct band too.
feedback_call_in_every_band(result) ==
    IF result.correctness >= PartialThreshold THEN "hint"
    ELSE "incorrect_feedback"

\* The call generate_dynamic_feedback awaits for this result, if any.
feedback_call(result) ==
    IF result.correctness >= CorrectThreshold THEN "none"
    ELSE IF result.correctness >= PartialThreshold THEN "hint"
    ELSE "incorrect_feedback"

\* An exception leaving generate_dynamic_feedback, as evaluate_saq_complete
\* (which has no handler) passes it on to the try of the request handler.
FeedbackException ==
    [evaluation |-> "<raised>", explanation_or_hint |-> None,
     correct_answer |-> None, requires_retry |-> FALSE]

\* A generate_dynamic_feedback without handlers: the failure of the call of a
\* helper leaves it as an exception.
generate_dynamic_feedback_propagates(result, ideal_answer, choice, call) ==
    IF result.correctness >= CorrectThreshold
    THEN [evaluation |-> result.feedback_category,
          explanation_or_hint |-> generate_correct_feedback(choice),
          correct_answer |-> ideal_answer,
          requires_retry |-> FALSE]
    ELSE IF call # "ok"
    THEN FeedbackException
    ELSE IF result.correctness >= PartialThreshold
    THEN [evaluation |-> result.feedback_category,
          explanation_or_hint |-> generate_hint(call),
          correct_answer |-> ideal_answer,
          requires_retry |-> TRUE]
    ELSE [evaluation |-> result.feedback_category,
          explanation_or_hint |-> generate_incorrect_feedback(call, ideal_answer),
          correct_answer |-> ideal_answer,
          requires_retry |-> FALSE]

\* A generate_dynamic_feedback whose helpers let the failure of their call
\* through to its except clause.
generate_dynamic_feedback_outer_except(result, ideal_answer, choice, call) ==
    IF result.correctness >= CorrectThreshold
    THEN [evaluation |-> result.feedback_category,
          explanation_or_hint |-> generate_correct_feedback(choice),
          correct_answer |-> ideal_answer,
          requires_retry |-> FALSE]
    ELSE IF call # "ok"
    THEN [evaluation |-> result.feedback_category,
          explanation_or_hint |->
             <<"I encountered an error generating feedback. Please try again.">>,
          correct_answer |-> ideal_answer,
          requires_retry |-> FALSE]
    ELSE IF result.correctness >= PartialThreshold
    THEN [evaluation |-> result.feedback_category,
          explanation_or_hint |-> generate_hint(call),
          correct_answer |-> ideal_answer,
          requires_retry |-> TRUE]
    ELSE [evaluation |-> result.feedback_category,
          explanation_or_hint |-> generate_incorrect_feedback(call, ideal_answer),
          correct_answer |-> ideal_answer,
          requires_retry |-> FALSE]

\* A generate_dynamic_feedback whose partial band excludes its lower boundary.
generate_dynamic_feedback_open_band(result, ideal_answer, choice, call) ==
    IF result.correctness >= CorrectThreshold
    THEN [evaluation |-> result.feedback_category,
          explanation_or_hint |-> generate_correct_feedback(choice),
          correct_answer |-> ideal_answer,
          requires_retry |-> FALSE]
    ELSE IF result.correctness > PartialThreshold
    THEN [evaluation |-> result.feedback_category,
          explanation_or_hint |-> generate_hint(call),
          correct_answer |-> ideal_answer,
          requires_retry |-> TRUE]
    ELSE [evaluation |-> result.feedback_category,
          explanation_or_hint |-> generate_incorrect_feedback(call, ideal_answer),
          correct_answer |-> ideal_answer,
          requires_retry |-> FALSE]

\* generate_dynamic_feedback. Its helpers catch the failure of their own call,
\* so the except clause of lines 128-136 is not reached by a failed call.
generate_dynamic_feedback(result, ideal_answer, choice, call) ==
    IF result.correctness >= CorrectThreshold
    THEN [evaluation |-> result.feedback_category,
          explanation_or_hint |-> generate_correct_feedback(choice),
          correct_answer |-> ideal_answer,
          requires_retry |-> FALSE]
    ELSE IF result.correctness >= PartialThreshold
    THEN [evaluation |-> result.feedback_category,
          explanation_or_hint |-> generate_hint(call),
          correct_answer |-> ideal_answer,
          requires_retry |-> TRUE]
    ELSE [evaluation |-> result.feedback_category,
          explanation_or_hint |-> generate_incorrect_feedback(call, ideal_answer),
          correct_answer |-> ideal_answer,
          requires_retry |-> FALSE]

(***************************************************************************)
(* routes/assessment.py: answer_quiz_question, its pure parts.             *)
(***************************************************************************)
NoFeedbackType == "<None>"
NoQuestion == "<None>"

\* A lookup that falls back to the first question of the bank.
find_question_defaults_first(question_id) ==
    LET hits == {i \in 1..Len(QuestionBank) :
                    QuestionBank[i].question_id = question_id}
    IN  IF hits = {} THEN 1 ELSE CHOOSE i \in hits : \A j \in hits : i <= j

\* next((q for q in questions if q.question_id == question_id), None), as the
\* index of the question in the bank, 0 for None.
find_question(question_id) ==
    LET hits == {i \in 1..Len(QuestionBank) :
                    QuestionBank[i].question_id = question_id}
    IN  IF hits = {} THEN 0 ELSE CHOOSE i \in hits : \A j \in hits : i <= j

\* The locals of the handler before the question is graded.
initial_locals(qa) ==
    [is_correct |-> FALSE,
     correct_answer |-> None,
     new_score |-> qa.current_score,
     new_total_questions_answered |-> qa.total_questions_answered + 1,
     feedback_type |-> NoFeedbackType,
     hint |-> None,
     explanation |-> None,
     requires_retry |-> FALSE]

\* A lookup of the correct option that takes the last one flagged.
correct_option_last(question) ==
    LET hits == {i \in 1..Len(question.mcq_options) :
                    question.mcq_options[i].is_correct}
    IN  IF hits = {} THEN 0 ELSE CHOOSE i \in hits : \A j \in hits : i >= j

\* next((opt for opt in mcq_options if opt.is_correct), None), as an index.
correct_option(question) ==
    LET hits == {i \in 1..Len(question.mcq_options) :
                    question.mcq_options[i].is_correct}
    IN  IF hits = {} THEN 0 ELSE CHOOSE i \in hits : \A j \in hits : i <= j

\* next((opt for opt in mcq_options if opt.text == answer), None), as an index.
chosen_option(question, answer) ==
    LET hits == {i \in 1..Len(question.mcq_options) :
                    question.mcq_options[i].text = answer}
    IN  IF hits = {} THEN 0 ELSE CHOOSE i \in hits : \A j \in hits : i <= j

\* Whether the MCQ branch awaits the explanatory model call.
mcq_awaits_call(question, qa) ==
    /\ correct_option(question) # 0
    /\ qa.answer # question.mcq_options[correct_option(question)].text
    /\ chosen_option(question, qa.answer) # 0

\* An MCQ branch whose explanation is lost with the explanatory call.
mcq_locals_call_required(question, qa, call) ==
    LET l0 == initial_locals(qa)
        co == correct_option(question)
        ch == chosen_option(question, qa.answer)
    IN  IF co = 0 THEN l0
        ELSE LET correct_answer == question.mcq_options[co].text
                 l1 == [l0 EXCEPT !.correct_answer = correct_answer]
             IN  IF qa.answer = correct_answer
                 THEN [l1 EXCEPT !.is_correct = TRUE,
                                 !.new_score = @ + 1,
                                 !.feedback_type = "correct",
                                 !.explanation =
                                    <<"Excellent! You selected the correct answer.">>]
                 ELSE IF ch = 0
                 THEN [l1 EXCEPT !.feedback_type = "incorrect",
                                 !.explanation =
                                    <<"Incorrect. The correct answer is: ">>
                                      \o correct_answer]
                 ELSE IF call = "ok"
                 THEN [l1 EXCEPT !.feedback_type = "incorrect",
                                 !.explanation =
                                    <<"That's not correct. You chose '">>
                                      \o question.mcq_options[ch].text
                                      \o <<"', but the correct answer is '">>
                                      \o correct_answer \o <<"'.\n\n">>
                                      \o strip(ModelText)]
                 ELSE [l1 EXCEPT !.feedback_type = "incorrect"]

\* The MCQ branch; call is the end of the explanatory call ("none": not made).
mcq_locals(question, qa, call) ==
    LET l0 == initial_locals(qa)
        co == correct_option(question)
        ch == chosen_option(question, qa.answer)
    IN  IF co = 0 THEN l0
        ELSE LET correct_answer == question.mcq_options[co].text
                 l1 == [l0 EXCEPT !.correct_answer = correct_answer]
             IN  IF qa.answer = correct_answer
                 THEN [l1 EXCEPT !.is_correct = TRUE,
                                 !.new_score = @ + 1,
                                 !.feedback_type = "correct",
                                 !.explanation =
                                    <<"Excellent! You selected the correct answer.">>]
                 ELSE IF ch = 0
                 THEN [l1 EXCEPT !.feedback_type = "incorrect",
                                 !.explanation =
                                    <<"Incorrect. The correct answer is: ">>
                                      \o correct_answer]
                 ELSE [l1 EXCEPT !.feedback_type = "incorrect",
                                 !.explanation =
                                    <<"That's not correct. You chose '">>
                                      \o question.mcq_options[ch].text
                                      \o <<"', but the correct answer is '">>
                                      \o correct_answer \o <<"'.\n\n">>
                                      \o (IF call = "ok" THEN strip(ModelText)
                                          ELSE <<"The correct answer addresses the key concept in the question more accurately.">>)]

\* current_question.ideal_answer or "No ideal answer provided"
saq_correct_answer(question) ==
    IF question.ideal_answer = None \/ question.ideal_answer = <<>>
    THEN NoIdealAnswer
    ELSE question.ideal_answer

\* A session key without the substitution of lines 209-211.
session_key_as_submitted(qa) == qa.session_id

\* The key of the retry map: the session id, or fallback-<question id>.
session_key(qa) ==
    IF qa.session_id = NoSession
    THEN "fallback-" \o qa.question_id
    ELSE qa.session_id

\* Lines 216-219 opening the question's entry by replacing the session's
\* dictionary, which drops the counts of the session's other questions.
initialised_attempts_replaces_session(attempts, session_id, question_id) ==
    IF session_id \in DOMAIN attempts
       /\ question_id \in DOMAIN attempts[session_id]
    THEN attempts
    ELSE [k \in DOMAIN attempts \cup {session_id} |->
            IF k = session_id THEN [q \in {question_id} |-> 0]
            ELSE attempts[k]]

\* retry_attempts after lines 216-219 (both levels created when missing).
initialised_attempts(attempts, session_id, question_id) ==
    LET a1 == IF session_id \in DOMAIN attempts THEN attempts
              ELSE [k \in DOMAIN attempts \cup {session_id} |->
                      IF k = session_id THEN [q \in {} |-> 0] ELSE attempts[k]]
    IN  IF question_id \in DOMAIN a1[session_id] THEN a1
        ELSE [a1 EXCEPT ![session_id] =
                [q \in DOMAIN a1[session_id] \cup {question_id} |->
                    IF q = question_id THEN 0 ELSE a1[session_id][q]]]

\* A retry_logic that grants the retry and forgets to count it.
retry_logic_no_increment(feedback, current_attempts) ==
    IF feedback.evaluation = "correct"
    THEN [is_correct |-> TRUE, award |-> 1, requires_retry |-> FALSE,
          hint_is_explanation |-> FALSE, attempts |-> 0]
    ELSE IF /\ feedback.evaluation = "partially_correct"
            /\ feedback.requires_retry
            /\ current_attempts = 0
    THEN [is_correct |-> FALSE, award |-> 0, requires_retry |-> TRUE,
          hint_is_explanation |-> TRUE, attempts |-> current_attempts]
    ELSE [is_correct |-> FALSE, award |-> 0, requires_retry |-> FALSE,
          hint_is_explanation |-> FALSE, attempts |-> current_attempts]

\* A retry_logic that keeps the evaluator's retry flag on a correct verdict.
retry_logic_keeps_flag(feedback, current_attempts) ==
    IF feedback.evaluation = "correct"
    THEN [is_correct |-> TRUE, award |-> 1, requires_retry |-> feedback.requires_retry,
          hint_is_explanation |-> FALSE, attempts |-> 0]
    ELSE IF /\ feedback.evaluation = "partially_correct"
            /\ feedback.requires_retry
            /\ current_attempts = 0
    THEN [is_correct |-> FALSE, award |-> 0, requires_retry |-> TRUE,
          hint_is_explanation |-> TRUE, attempts |-> 1]
    ELSE [is_correct |-> FALSE, award |-> 0, requires_retry |-> FALSE,
          hint_is_explanation |-> FALSE, attempts |-> current_attempts]

\* A retry_logic that grants the retry whatever the attempts read.
retry_logic_ignores_attempts(feedback, current_attempts) ==
    IF feedback.evaluation = "correct"
    THEN [is_correct |-> TRUE, award |-> 1, requires_retry |-> FALSE,
          hint_is_explanation |-> FALSE, attempts |-> 0]
    ELSE IF /\ feedback.evaluation = "partially_correct"
            /\ feedback.requires_retry
    THEN [is_correct |-> FALSE, award |-> 0, requires_retry |-> TRUE,
          hint_is_explanation |-> TRUE, attempts |-> 1]
    ELSE [is_correct |-> FALSE, award |-> 0, requires_retry |-> FALSE,
          hint_is_explanation |-> FALSE, attempts |-> current_attempts]

\* A retry_logic whose final verdict resets the count.
retry_logic_final_resets(feedback, current_attempts) ==
    IF feedback.evaluation = "correct"
    THEN [is_correct |-> TRUE, award |-> 1, requires_retry |-> FALSE,
          hint_is_explanation |-> FALSE, attempts |-> 0]
    ELSE IF /\ feedback.evaluation = "partially_correct"
            /\ feedback.requires_retry
            /\ current_attempts = 0
    THEN [is_correct |-> FALSE, award |-> 0, requires_retry |-> TRUE,
          hint_is_explanation |-> TRUE, attempts |-> 1]
    ELSE [is_correct |-> FALSE, award |-> 0, requires_retry |-> FALSE,
          hint_is_explanation |-> FALSE, attempts |-> 0]

\* A retry_logic whose final verdict counts the attempt.
retry_logic_counts_every_attempt(feedback, current_attempts) ==
    IF feedback.evaluation = "correct"
    THEN [is_correct |-> TRUE, award |-> 1, requires_retry |-> FALSE,
          hint_is_explanation |-> FALSE, attempts |-> 0]
    ELSE IF /\ feedback.evaluation = "partially_correct"
            /\ feedback.requires_retry
            /\ current_attempts = 0
    THEN [is_correct |-> FALSE, award |-> 0, requires_retry |-> TRUE,
          hint_is_explanation |-> TRUE, attempts |-> 1]
    ELSE [is_correct |-> FALSE, award |-> 0, requires_retry |-> FALSE,
          hint_is_explanation |-> FALSE, attempts |-> current_attempts + 1]

\* A retry_logic that awards the point when it grants the retry.
retry_logic_awards_retry(feedback, current_attempts) ==
    IF feedback.evaluation = "correct"
    THEN [is_correct |-> TRUE, award |-> 1, requires_retry |-> FALSE,
          hint_is_explanation |-> FALSE, attempts |-> 0]
    ELSE IF /\ feedback.evaluation = "partially_correct"
            /\ feedback.requires_retry
            /\ current_attempts = 0
    THEN [is_correct |-> FALSE, award |-> 1, requires_retry |-> TRUE,
          hint_is_explanation |-> TRUE, attempts |-> 1]
    ELSE [is_correct |-> FALSE, award |-> 0, requires_retry |-> FALSE,
          hint_is_explanation |-> FALSE, attempts |-> current_attempts]

\* Lines 225-250: the verdict from the feedback and the attempts read, and the
\* count the pair is left with.
retry_logic(feedback, current_attempts) ==
    IF feedback.evaluation = "correct"
    THEN [is_correct |-> TRUE, award |-> 1, requires_retry |-> FALSE,
          hint_is_explanation |-> FALSE, attempts |-> 0]
    ELSE IF /\ feedback.evaluation = "partially_correct"
            /\ feedback.requires_retry
            /\ current_attempts = 0
    THEN [is_correct |-> FALSE, award |-> 0, requires_retry |-> TRUE,
          hint_is_explanation |-> TRUE, attempts |-> 1]
    ELSE [is_correct |-> FALSE, award |-> 0, requires_retry |-> FALSE,
          hint_is_explanation |-> FALSE, attempts |-> current_attempts]

\* Locals that leave the answered count alone when the retry is granted.
saq_llm_locals_retry_uncounted(qa, feedback, current_attempts) ==
    LET v == retry_logic(feedback, current_attempts)
    IN  [is_correct |-> v.is_correct,
         correct_answer |-> feedback.correct_answer,
         new_score |-> qa.current_score + v.award,
         new_total_questions_answered |->
            IF v.requires_retry THEN qa.total_questions_answered
            ELSE qa.total_questions_answered + 1,
         feedback_type |-> feedback.evaluation,
         hint |-> IF v.hint_is_explanation THEN feedback.explanation_or_hint
                  ELSE None,
         explanation |-> feedback.explanation_or_hint,
         requires_retry |-> v.requires_retry]

\* Locals that pass the explanation as the hint of every verdict.
saq_llm_locals_always_hints(qa, feedback, current_attempts) ==
    LET v == retry_logic(feedback, current_attempts)
    IN  [is_correct |-> v.is_correct,
         correct_answer |-> feedback.correct_answer,
         new_score |-> qa.current_score + v.award,
         new_total_questions_answered |->
            qa.total_questions_answered + 1,
         feedback_type |-> feedback.evaluation,
         hint |-> feedback.explanation_or_hint,
         explanation |-> feedback.explanation_or_hint,
         requires_retry |-> v.requires_retry]

\* Lines 200-250: the locals after a feedback came back.
saq_llm_locals(qa, feedback, current_attempts) ==
    LET v == retry_logic(feedback, current_attempts)
    IN  [is_correct |-> v.is_correct,
         correct_answer |-> feedback.correct_answer,
         new_score |-> qa.current_score + v.award,
         new_total_questions_answered |->
            qa.total_questions_answered + 1,
         feedback_type |-> feedback.evaluation,
         hint |-> IF v.hint_is_explanation THEN feedback.explanation_or_hint
                  ELSE None,
         explanation |-> feedback.explanation_or_hint,
         requires_retry |-> v.requires_retry]

FallbackCorrectThreshold == 85
FallbackPartialThreshold == 50

\* A match_percentage whose simple matching compares for equality.
match_percentage_by_equality(answer, correct_answer) ==
    LET student_words_filtered == split_set(strip(lower(answer))) \ stop_words
        ideal_words_filtered ==
            split_set(strip(lower(correct_answer))) \ stop_words
    IN  IF Cardinality(ideal_words_filtered) = 0
        THEN IF strip(lower(answer)) = lower(correct_answer)
             THEN <<1, 1>> ELSE <<0, 1>>
        ELSE <<Cardinality(student_words_filtered \cap ideal_words_filtered),
               Cardinality(ideal_words_filtered)>>

\* Lines 255-269: match_percentage as <<numerator, denominator>>.
match_percentage(answer, correct_answer) ==
    LET student_words_filtered == split_set(strip(lower(answer))) \ stop_words
        ideal_words_filtered ==
            split_set(strip(lower(correct_answer))) \ stop_words
    IN  IF Cardinality(ideal_words_filtered) = 0
        THEN IF is_substring(strip(lower(answer)), lower(correct_answer))
             THEN <<1, 1>> ELSE <<0, 1>>
        ELSE <<Cardinality(student_words_filtered \cap ideal_words_filtered),
               Cardinality(ideal_words_filtered)>>

\* The reference answers of the bank, as line 178 reads them.
CorrectAnswers ==
    {saq_correct_answer(QuestionBank[i]) : i \in 1..Len(QuestionBank)}

\* A reference answer of twenty distinct words, none a stop word, and the
\* answers that hold its first 17, 16, 10 and 9 words: the ratios 0.85, 0.80,
\* 0.50 and 0.45.
TwentyWords ==
    <<"b", " ", "c", " ", "d", " ", "e", " ", "f", " ", "g", " ", "h", " ",
      "i", " ", "j", " ", "k", " ", "l", " ", "m", " ", "n", " ", "o", " ",
      "p", " ", "q", " ", "r", " ", "s", " ", "t", " ", "u">>
FirstWords(n) == SubSeq(TwentyWords, 1, 2 * n - 1)

\* An answer in capitals, with a stop word and surrounding whitespace.
TheGas == <<" ", "T", "h", "e", " ", "G", "A", "S", "\n">>

\* A reference answer made of stop words only, and an answer that is a part
\* of it once lowercased and stripped.
ToBe == <<"T", "o", " ", "b", "e">>
OBe == <<" ", "O", " ", "B", "E", " ">>

\* The answers and reference answers the lexical fallback is applied to.
FallbackAnswers ==
    Answers \cup {TheGas, TwentyWords, FirstWords(17), FirstWords(16),
                  FirstWords(10), FirstWords(9), OBe}
FallbackCorrectAnswers == CorrectAnswers \cup {TwentyWords, ToBe}

\* match_percentage over the answers and the reference answers, computed once.
MatchPercentages ==
    [answer \in FallbackAnswers, correct_answer \in FallbackCorrectAnswers |->
        match_percentage(answer, correct_answer)]

\* A comparison that leaves the boundary to the lower band.
at_least_strict(ratio, threshold) == 100 * ratio[1] > threshold * ratio[2]

\* match_percentage >= threshold / 100
at_least(ratio, threshold) == 100 * ratio[1] >= threshold * ratio[2]

\* A fallback that leaves feedback_type unset in the partial band.
saq_fallback_locals_unset_type(qa, correct_answer) ==
    LET l0 == [initial_locals(qa) EXCEPT
                  !.correct_answer = correct_answer]
        ratio == MatchPercentages[qa.answer, correct_answer]
    IN  IF at_least(ratio, FallbackCorrectThreshold)
        THEN [l0 EXCEPT !.is_correct = TRUE,
                        !.new_score = @ + 1,
                        !.feedback_type = "correct",
                        !.explanation =
                           <<"Excellent! Your answer contains all the key concepts.">>]
        ELSE IF at_least(ratio, FallbackPartialThreshold)
        THEN [l0 EXCEPT !.explanation =
                           <<"Good start! You have some key concepts right. The complete answer is: ">>
                             \o correct_answer]
        ELSE [l0 EXCEPT !.feedback_type = "incorrect",
                        !.explanation =
                           <<"Not quite right. The expected answer was: ">>
                             \o correct_answer]

\* A fallback with a retry branch in its partial band.
saq_fallback_locals_grants_retry(qa, correct_answer) ==
    LET l0 == [initial_locals(qa) EXCEPT !.correct_answer = correct_answer]
        ratio == MatchPercentages[qa.answer, correct_answer]
    IN  IF at_least(ratio, FallbackCorrectThreshold)
        THEN [l0 EXCEPT !.is_correct = TRUE,
                        !.new_score = @ + 1,
                        !.feedback_type = "correct",
                        !.explanation =
                           <<"Excellent! Your answer contains all the key concepts.">>]
        ELSE IF at_least(ratio, FallbackPartialThreshold)
        THEN [l0 EXCEPT !.feedback_type = "partially_correct",
                        !.requires_retry = TRUE,
                        !.hint = <<"Good start! You have some key concepts right. The complete answer is: ">>
                                   \o correct_answer,
                        !.explanation =
                           <<"Good start! You have some key concepts right. The complete answer is: ">>
                             \o correct_answer]
        ELSE [l0 EXCEPT !.feedback_type = "incorrect",
                        !.explanation =
                           <<"Not quite right. The expected answer was: ">>
                             \o correct_answer]

\* A fallback that grades the answers of requests without session id as
\* having no word of the ideal answer.
saq_fallback_locals_by_session(qa, correct_answer) ==
    LET l0 == [initial_locals(qa) EXCEPT !.correct_answer = correct_answer]
        ratio == IF qa.session_id = NoSession THEN <<0, 1>>
                 ELSE MatchPercentages[qa.answer, correct_answer]
    IN  IF at_least(ratio, FallbackCorrectThreshold)
        THEN [l0 EXCEPT !.is_correct = TRUE,
                        !.new_score = @ + 1,
                        !.feedback_type = "correct",
                        !.explanation =
                           <<"Excellent! Your answer contains all the key concepts.">>]
        ELSE IF at_least(ratio, FallbackPartialThreshold)
        THEN [l0 EXCEPT !.feedback_type = "partially_correct",
                        !.explanation =
                           <<"Good start! You have some key concepts right. The complete answer is: ">>
                             \o correct_answer]
        ELSE [l0 EXCEPT !.feedback_type = "incorrect",
                        !.explanation =
                           <<"Not quite right. The expected answer was: ">>
                             \o correct_answer]

\* Lines 252-288: the locals the except branch leaves.
saq_fallback_locals(qa, correct_answer) ==
    LET l0 == [initial_locals(qa) EXCEPT
                  !.correct_answer = correct_answer]
        ratio == MatchPercentages[qa.answer, correct_answer]
    IN  IF at_least(ratio, FallbackCorrectThreshold)
        THEN [l0 EXCEPT !.is_correct = TRUE,
                        !.new_score = @ + 1,
                        !.feedback_type = "correct",
                        !.explanation =
                           <<"Excellent! Your answer contains all the key concepts.">>]
        ELSE IF at_least(ratio, FallbackPartialThreshold)
        THEN [l0 EXCEPT !.feedback_type = "partially_correct",
                        !.explanation =
                           <<"Good start! You have some key concepts right. The complete answer is: ">>
                             \o correct_answer]
        ELSE [l0 EXCEPT !.feedback_type = "incorrect",
                        !.explanation =
                           <<"Not quite right. The expected answer was: ">>
                             \o correct_answer]

\* A progression that stops one question early.
next_question_stops_early(current_index) ==
    IF current_index # 0 /\ current_index + 1 < Len(QuestionBank)
    THEN QuestionBank[current_index + 1].question_id
    ELSE NoQuestion

\* Lines 376-386: the id of the question after the answered one, if any.
next_question(current_index) ==
    IF current_index # 0 /\ current_index + 1 <= Len(QuestionBank)
    THEN QuestionBank[current_index + 1].question_id
    ELSE NoQuestion

\* Lines 388-403: the QuizFeedback returned with status 200.
QuizFeedback(locals, current_index) ==
    [status |-> 200,
     is_correct |-> locals.is_correct,
     correct_answer |-> locals.correct_answer,
     next_question |-> next_question(current_index),
     final_score |->
        IF next_question(current_index) = NoQuestion
        THEN <<"Quiz Complete! Your score: ", locals.new_score, "/",
               locals.new_total_questions_answered>>
        ELSE None,
     new_score |-> locals.new_score,
     new_total_questions_answered |-> locals.new_total_questions_answered,
     feedback_type |-> locals.feedback_type,
     hint |-> locals.hint,
     explanation |-> locals.explanation,
     requires_retry |-> locals.requires_retry]

\* raise HTTPException(status_code=404, detail="Question not found")
QuestionNotFound ==
    [status |-> 404,
     is_correct |-> FALSE,
     correct_answer |-> None,
     next_question |-> NoQuestion,
     final_score |-> None,
     new_score |-> 0,
     new_total_questions_answered |-> 0,
     feedback_type |-> NoFeedbackType,
     hint |-> None,
     explanation |-> None,
     requires_retry |-> FALSE]

(***************************************************************************)
(* api/websockets.py: the conversational quiz over a websocket and the     *)
(* course-generation updates. What its coroutines work on.                 *)
(***************************************************************************)
MaxConnections == 3
MaxMessages == 4

\* The websocket connections made to /ws/quiz/{session_id}, and the
\* websockets opened on /course/{course_id}/generation.
Connections == 1..MaxConnections

QuizSessionIds == {"s1", "s2"}
CourseIds == {1, 2}

\* str() of a natural number.
Digits == <<"0", "1", "2", "3", "4", "5", "6", "7", "8", "9">>
RECURSIVE str(_)
str(n) ==
    IF n < 10 THEN <<Digits[n + 1]>>
    ELSE str(n \div 10) \o <<Digits[(n % 10) + 1]>>

\* Lines 162-190: the bank websocket_quiz builds for every connection. The
\* Question(...) calls pass no page_number.
mock_question_bank ==
    [questions |->
       << [question_id |-> "q1",
           question_text |-> "What is the capital of France?",
           question_type |-> "mcq",
           mcq_options |->
              << [option_id |-> 1, text |-> "Berlin", is_correct |-> FALSE],
                 [option_id |-> 2, text |-> "Paris", is_correct |-> TRUE],
                 [option_id |-> 3, text |-> "Rome", is_correct |-> FALSE] >>,
           ideal_answer |-> None],
          [question_id |-> "q2",
           question_text |->
              "The chemical symbol for water is H2O. True or False?",
           question_type |-> "saq",
           mcq_options |-> <<>>,
           ideal_answer |-> <<"T", "r", "u", "e">>],
          [question_id |-> "q3",
           question_text |-> "What is 2 + 2?",
           question_type |-> "saq",
           mcq_options |-> <<>>,
           ideal_answer |-> <<"4">>] >>]

\* models.py 718-725: the fields of Question declared with Field(...), which
\* pydantic requires; a Question built without one raises ValidationError.
QuestionRequiredFields ==
    {"question_id", "page_number", "question_type", "question_text"}

QuestionBankValid(bank) ==
    \A i \in DOMAIN bank.questions :
        QuestionRequiredFields \subseteq DOMAIN bank.questions[i]

\* The same questions with the page number each of them lacks.
with_page_numbers(bank) ==
    [questions |->
       [i \in DOMAIN bank.questions |->
          [f \in DOMAIN bank.questions[i] \cup {"page_number"} |->
             IF f = "page_number" THEN 1 ELSE bank.questions[i][f]]]]

\* The bank a QuizSession is given: line 160 leaves open where it comes
\* from. The sessions of the model run over the three mock questions.
question_bank == with_page_numbers(mock_question_bank)

\* What websocket_quiz can be left with at line 190: the bank as the file
\* builds it, and a bank that validates.
QuestionBanks == {mock_question_bank, question_bank}

\* The answers a client submits over the websocket: an option id, the two
\* ideal answers in other case, the empty string, and a wrong answer.
QuizSocketAnswers ==
    { <<"2">>, <<"t", "R", "U", "E">>, <<"4">>, <<>>, <<"1">> }

\* The messages a client sends: an answer, a SUBMIT_ANSWER without answer, a
\* message of another type.
QuizSocketMessages ==
    [type : {"SUBMIT_ANSWER"}, answer : QuizSocketAnswers]
      \cup {[type |-> "SUBMIT_ANSWER", answer |-> None],
            [type |-> "PING", answer |-> None]}

\* Lines 94-105: is_correct of evaluate_answer.
is_correct_answer(question, answer) ==
    IF question.question_type = "mcq"
    THEN LET matching == {i \in DOMAIN question.mcq_options :
                            str(question.mcq_options[i].option_id) = answer}
         IN  /\ matching # {}
             /\ question.mcq_options[
                   CHOOSE i \in matching : \A j \in matching : i <= j
                ].is_correct
    ELSE IF question.question_type = "saq"
    THEN /\ question.ideal_answer # None
         /\ question.ideal_answer # <<>>
         /\ is_substring(lower(answer), lower(question.ideal_answer))
    ELSE FALSE

\* Lines 66-72: QuizSession.__init__; quiz_sessions holds NoQuizSession for a
\* connection whose session has not been created.
NoQuizSession ==
    [current_question_index |-> -1, score |-> -1, quiz_completed |-> FALSE]
NewQuizSession ==
    [current_question_index |-> 0, score |-> 0, quiz_completed |-> FALSE]

\* A websocket the application has not accepted, and the messages sent on it
\* counted by type, with the final_score of the last QUIZ_COMPLETE.
NoMessages ==
    [NEW_QUESTION |-> 0, ANSWER_FEEDBACK |-> 0, QUIZ_COMPLETE |-> 0,
     ERROR |-> 0]
NewWebSocket ==
    [application_state |-> "connecting", sent |-> NoMessages,
     final_score |-> None]

\* A websocket_quiz coroutine that has not started: the await it is
\* suspended at, its session_id, the QuizSession it is evaluating an answer
\* on, the messages it received, the exception that ended it.
IdleQuizHandler ==
    [pc |-> "idle", session_id |-> "", session |-> 0, received |-> 0,
     exception |-> "none"]

IdleCourseHandler == [pc |-> "idle", course_id |-> 0, exception |-> "none"]

NoItemUpdate == [course_id |-> 0, sent_to |-> {}]

(***************************************************************************)
(* The state: the module-level retry map, and the requests on the event    *)
(* loop. A request runs without interruption from one await to the next:   *)
(* it is received and runs to its first model call, and each model call's  *)
(* return runs it to its next model call or to its response.               *)
(***************************************************************************)
VARIABLES
    retry_attempts,     \* {session_id: {question_id: attempt_count}}
    pc,                 \* per request: the await it is suspended at
    quiz_answer,        \* per request: the QuizAnswer received
    evaluation_result,  \* per request: the SemanticEvaluationResult obtained
    response,           \* per request: the response sent
    observed,           \* per request: the path taken, the attempts read,
                        \*   the model calls issued and how each ended
    granted,            \* the pairs that have been granted a retry
    raced,              \* requests that waited for their hint beside another
                        \*   request of the same pair, count 0, both
                        \*   partially_correct, the count not reset since
    integrity_logs,     \* the module-level list of integrity logs
    clear_message,      \* the last response of POST /clear-session
    active_quiz_sessions,   \* quiz_manager: session id -> QuizSession
    quiz_sessions,      \* the QuizSession objects, by the connection
                        \*   whose connect call created them
    quiz_handlers,      \* per connection: its websocket_quiz coroutine
    quiz_websockets,    \* per connection: its WebSocket
    active_connections, \* manager: course id -> set of WebSockets
    course_handlers,    \* per websocket: its websocket_course_generation
    item_update         \* the last send_item_update and who was sent it

vars == <<retry_attempts, pc, quiz_answer, evaluation_result, response,
          observed, granted, raced, integrity_logs, clear_message,
          active_quiz_sessions, quiz_sessions, quiz_handlers, quiz_websockets,
          active_connections, course_handlers, item_update>>

\* The state of api/routes/assessment.py.
assessment_vars ==
    <<retry_attempts, pc, quiz_answer, evaluation_result, response,
      observed, granted, raced, integrity_logs, clear_message>>

\* The state of the conversational quiz of api/websockets.py.
quiz_socket_vars ==
    <<active_quiz_sessions, quiz_sessions, quiz_handlers, quiz_websockets>>

\* The state of the course-generation updates of api/websockets.py.
course_socket_vars == <<active_connections, course_handlers, item_update>>

websocket_vars == <<quiz_socket_vars, course_socket_vars>>

\* The other module-level store and the response of its clear endpoint.
session_logs == <<integrity_logs, clear_message>>

NoClearMessage == [session_id |-> None, cleared_count |-> -1]

Requests == 1..MaxInFlight

Scores == 0..MaxScore

\* Every QuizAnswer a client can submit.
QuizAnswers ==
    [question_id : QuestionIds, answer : Answers, current_score : Scores,
     total_questions_answered : Scores, session_id : SessionIds]

\* The submissions of the retry state machine: the two SAQs of the bank, in
\* one session, answered with half of the ideal words of the first.
SAQAnswers ==
    [question_id : {"q1", "q3"}, answer : {Gas},
     current_score : {MaxScore}, total_questions_answered : {MaxScore},
     session_id : {"s1"}]


NoQuizAnswer ==
    [question_id |-> "<none>", answer |-> <<>>, current_score |-> 0,
     total_questions_answered |-> 0, session_id |-> NoSession]

NoResponse == [QuestionNotFound EXCEPT !.status = 0]

\* No word-matching ratio was computed for the request.
NoRatio == <<0, 0>>

\* evaluate_saq_complete returned no feedback to the request.
NoFeedback ==
    [evaluation |-> NoFeedbackType, explanation_or_hint |-> None,
     correct_answer |-> None, requires_retry |-> FALSE]

NotObserved ==
    [path |-> "none", current_attempts |-> -1, calls |-> <<>>,
     ratio |-> NoRatio, feedback |-> NoFeedback]

\* The pair a request is tracked under.
pair_of(qa) == <<session_key(qa), qa.question_id>>

\* The pairs the requests can be tracked under.
Pairs == {pair_of(qa) : qa \in QuizAnswers}

\* The count the retry map holds for a pair, 0 when it holds none.
attempts_of(attempts, pair) ==
    IF pair[1] \in DOMAIN attempts /\ pair[2] \in DOMAIN attempts[pair[1]]
    THEN attempts[pair[1]][pair[2]]
    ELSE 0

has_entry(attempts, pair) ==
    pair[1] \in DOMAIN attempts /\ pair[2] \in DOMAIN attempts[pair[1]]

Init ==
    /\ retry_attempts = [k \in {} |-> [q \in {} |-> 0]]
    /\ pc = [r \in Requests |-> "idle"]
    /\ quiz_answer = [r \in Requests |-> NoQuizAnswer]
    /\ evaluation_result = [r \in Requests |-> NoResult]
    /\ response = [r \in Requests |-> NoResponse]
    /\ observed = [r \in Requests |-> NotObserved]
    /\ granted = {}
    /\ raced = {}
    /\ integrity_logs = <<>>
    /\ clear_message = NoClearMessage
    /\ active_quiz_sessions = [k \in {} |-> 0]
    /\ quiz_sessions = [c \in Connections |-> NoQuizSession]
    /\ quiz_handlers = [c \in Connections |-> IdleQuizHandler]
    /\ quiz_websockets = [c \in Connections |-> NewWebSocket]
    /\ active_connections = [k \in {} |-> {}]
    /\ course_handlers = [w \in Connections |-> IdleCourseHandler]
    /\ item_update = NoItemUpdate

\* A request waiting for its hint, evaluated partially_correct, beside another
\* such request of the same pair while the pair's count is 0.
InRace(r) ==
    /\ pc[r] = "generate_hint"
    /\ evaluation_result[r].feedback_category = "partially_correct"
    /\ attempts_of(retry_attempts, pair_of(quiz_answer[r])) = 0
    /\ \E o \in Requests \ {r} :
          /\ pc[o] = "generate_hint"
          /\ evaluation_result[o].feedback_category = "partially_correct"
          /\ pair_of(quiz_answer[o]) = pair_of(quiz_answer[r])

\* The step's bookkeeping of raced; `fresh` is the request just received. A
\* reset of the pair's count (1 to 0) ends the race of its requests.
Raced(fresh) ==
    raced' = {r \in Requests :
                \/ /\ r \in raced
                   /\ r \notin fresh
                   /\ ~(/\ attempts_of(retry_attempts,
                                       pair_of(quiz_answer[r])) = 1
                        /\ attempts_of(retry_attempts',
                                       pair_of(quiz_answer[r])) = 0)
                \/ InRace(r)'}

\* The request responds with `locals`, leaving the retry map alone.
Respond(r, qa, locals, path, calls) ==
    /\ response' = [response EXCEPT ![r] =
          QuizFeedback(locals, find_question(qa.question_id))]
    /\ pc' = [pc EXCEPT ![r] = "responded"]
    /\ observed' = [observed EXCEPT ![r] =
          [path |-> path, current_attempts |-> -1, calls |-> calls,
           ratio |-> IF path = "fallback"
                     THEN MatchPercentages[qa.answer, locals.correct_answer]
                     ELSE NoRatio,
           feedback |-> NoFeedback]]

\* Lines 198-250 and 376-403: the feedback came back; the request reads and
\* writes the retry map and responds, all without an await.
RespondLLM(r, feedback, calls) ==
    LET qa == quiz_answer[r]
        session_id == session_key(qa)
        current_attempts ==
            initialised_attempts(retry_attempts, session_id,
                                 qa.question_id)[session_id][qa.question_id]
        v == retry_logic(feedback, current_attempts)
        locals == saq_llm_locals(qa, feedback, current_attempts)
    IN  /\ retry_attempts' =
              [initialised_attempts(retry_attempts, session_id, qa.question_id)
                 EXCEPT ![session_id][qa.question_id] = v.attempts]
        /\ response' = [response EXCEPT ![r] =
              QuizFeedback(locals, find_question(qa.question_id))]
        /\ pc' = [pc EXCEPT ![r] = "responded"]
        /\ observed' = [observed EXCEPT ![r] =
              [path |-> "llm", current_attempts |-> current_attempts,
               calls |-> calls, ratio |-> NoRatio,
               feedback |-> feedback]]
        /\ granted' = IF locals.requires_retry
                       THEN granted \cup {pair_of(qa)}
                       ELSE granted

\* Lines 196-253: evaluate_saq_complete returned the feedback, or the
\* exception of its feedback stage reached the except of the handler.
RespondFeedback(r, feedback, calls) ==
    IF feedback = FeedbackException
    THEN /\ Respond(r, quiz_answer[r],
                    saq_fallback_locals(quiz_answer[r],
                       saq_correct_answer(
                          QuestionBank[find_question(quiz_answer[r].question_id)])),
                    "fallback", calls)
         /\ UNCHANGED <<retry_attempts, granted>>
    ELSE RespondLLM(r, feedback, calls)

\* POST /quiz/answer is received: lines 92-196, to the first await.
Submit(r, qa, evaluator_raises) ==
    /\ pc[r] \in {"idle", "responded"}
    /\ quiz_answer' = [quiz_answer EXCEPT ![r] = qa]
    /\ evaluation_result' = [evaluation_result EXCEPT ![r] = NoResult]
    /\ LET current_index == find_question(qa.question_id)
           question == QuestionBank[current_index]
       IN  IF current_index = 0
           THEN /\ response' = [response EXCEPT ![r] = QuestionNotFound]
                /\ pc' = [pc EXCEPT ![r] = "responded"]
                /\ observed' = [observed EXCEPT ![r] =
                      [NotObserved EXCEPT !.path = "not_found"]]
           ELSE IF question.question_type = "mcq"
           THEN IF mcq_awaits_call(question, qa)
                THEN /\ pc' = [pc EXCEPT ![r] = "mcq_explanation"]
                     /\ response' = [response EXCEPT ![r] = NoResponse]
                     /\ observed' = [observed EXCEPT ![r] =
                           [NotObserved EXCEPT !.path = "mcq"]]
                ELSE Respond(r, qa, mcq_locals(question, qa, "none"), "mcq", <<>>)
           ELSE IF evaluator_raises
           THEN Respond(r, qa,
                        saq_fallback_locals(qa, saq_correct_answer(question)),
                        "fallback", <<>>)
           ELSE /\ pc' = [pc EXCEPT ![r] = "semantic_evaluation"]
                /\ response' = [response EXCEPT ![r] = NoResponse]
                /\ observed' = [observed EXCEPT ![r] =
                      [NotObserved EXCEPT !.path = "llm"]]
    /\ UNCHANGED <<retry_attempts, granted>>
    /\ Raced({r})
    /\ UNCHANGED <<session_logs, websocket_vars>>

\* The semantic call of evaluate_saq_complete returns or raises.
SemanticReturns(r, out, choice) ==
    /\ pc[r] = "semantic_evaluation"
    /\ LET qa == quiz_answer[r]
           question == QuestionBank[find_question(qa.question_id)]
           ideal_answer == saq_correct_answer(question)
           evaluated == semantic_evaluation(out)
           calls == <<[call |-> "semantic",
                       ok |-> ~out.raises /\ SemanticEvaluationResultValid(out)]>>
       IN  IF evaluated.raised
           THEN /\ Respond(r, qa, saq_fallback_locals(qa, ideal_answer),
                           "fallback", calls)
                /\ UNCHANGED <<retry_attempts, granted, evaluation_result>>
           ELSE /\ evaluation_result' =
                      [evaluation_result EXCEPT ![r] = evaluated.result]
                /\ IF feedback_call(evaluated.result) = "none"
                   THEN RespondFeedback(r,
                          generate_dynamic_feedback(evaluated.result,
                             ideal_answer, choice, "none"), calls)
                   ELSE /\ pc' = [pc EXCEPT ![r] =
                              IF feedback_call(evaluated.result) = "hint"
                              THEN "generate_hint"
                              ELSE "generate_incorrect_feedback"]
                        /\ observed' = [observed EXCEPT ![r].calls = calls]
                        /\ UNCHANGED <<retry_attempts, granted, response>>
    /\ UNCHANGED quiz_answer
    /\ Raced({})
    /\ UNCHANGED <<session_logs, websocket_vars>>

\* The hint or explanation call of generate_dynamic_feedback returns or raises.
FeedbackReturns(r, call) ==
    /\ pc[r] \in {"generate_hint", "generate_incorrect_feedback"}
    /\ LET qa == quiz_answer[r]
           question == QuestionBank[find_question(qa.question_id)]
           feedback == generate_dynamic_feedback(evaluation_result[r],
                          saq_correct_answer(question), 1, call)
       IN  RespondFeedback(r, feedback,
              Append(observed[r].calls,
                     [call |-> feedback_call(evaluation_result[r]),
                      ok |-> call = "ok"]))
    /\ UNCHANGED <<quiz_answer, evaluation_result>>
    /\ Raced({})
    /\ UNCHANGED <<session_logs, websocket_vars>>

\* An MCQ branch that opens an entry of the retry map for its pair.
MCQExplanationReturns_opens_entry(r, call) ==
    /\ pc[r] = "mcq_explanation"
    /\ Respond(r, quiz_answer[r],
               mcq_locals(QuestionBank[find_question(quiz_answer[r].question_id)],
                          quiz_answer[r], call),
               "mcq", <<[call |-> "mcq_explanation", ok |-> call = "ok"]>>)
    /\ retry_attempts' =
          initialised_attempts(retry_attempts, session_key(quiz_answer[r]),
                               quiz_answer[r].question_id)
    /\ UNCHANGED <<granted, quiz_answer, evaluation_result>>
    /\ Raced({})
    /\ UNCHANGED <<session_logs, websocket_vars>>

\* The explanatory call of a wrong MCQ choice returns or raises.
MCQExplanationReturns(r, call) ==
    /\ pc[r] = "mcq_explanation"
    /\ LET qa == quiz_answer[r]
           question == QuestionBank[find_question(qa.question_id)]
       IN  Respond(r, qa, mcq_locals(question, qa, call), "mcq",
                   <<[call |-> "mcq_explanation", ok |-> call = "ok"]>>)
    /\ UNCHANGED <<retry_attempts, granted, quiz_answer, evaluation_result>>
    /\ Raced({})
    /\ UNCHANGED <<session_logs, websocket_vars>>

\* The choices random.choice can make for a result, as far as they differ.
Choices(out) ==
    IF ~semantic_evaluation(out).raised
       /\ feedback_call(semantic_evaluation(out).result) = "none"
    THEN {1, NumCorrectResponses}
    ELSE {1}

\* SAQ submissions of one session, MaxInFlight of them in flight at once.
Next ==
    \E r \in Requests :
        \/ \E qa \in SAQAnswers, e \in BOOLEAN : Submit(r, qa, e)
        \/ \E out \in SemanticCallOutcomes : \E c \in Choices(out) :
              SemanticReturns(r, out, c)
        \/ \E call \in TextCallOutcomes : FeedbackReturns(r, call)

Spec == Init /\ [][Next]_vars

\* One run of MaxInFlight requests, each received once.
NextOnce ==
    \E r \in Requests :
        \/ /\ pc[r] = "idle"
           /\ \E qa \in SAQAnswers, e \in BOOLEAN : Submit(r, qa, e)
        \/ \E out \in SemanticCallOutcomes : \E c \in Choices(out) :
              SemanticReturns(r, out, c)
        \/ \E call \in TextCallOutcomes : FeedbackReturns(r, call)

\* Every model call awaited eventually returns or raises.
FairSpec ==
    /\ Init /\ [][NextOnce]_vars
    /\ \A r \in Requests :
          /\ WF_vars(\E out \in SemanticCallOutcomes : \E c \in Choices(out) :
                        SemanticReturns(r, out, c))
          /\ WF_vars(\E call \in TextCallOutcomes : FeedbackReturns(r, call))

\* The whole endpoint for one client that waits for each response: every
\* question type, known and unknown question ids, with and without session id.
QuizInputs ==
    {qa \in QuizAnswers : /\ qa.current_score = MaxScore
                          /\ qa.total_questions_answered = MaxScore}

QuizNext ==
    \E r \in {1} :
        \/ \E qa \in QuizInputs, e \in BOOLEAN : Submit(r, qa, e)
        \/ \E out \in SemanticCallOutcomes : \E c \in Choices(out) :
              SemanticReturns(r, out, c)
        \/ \E call \in TextCallOutcomes : FeedbackReturns(r, call)
        \/ \E call \in TextCallOutcomes : MCQExplanationReturns(r, call)

QuizSpec == Init /\ [][QuizNext]_vars

\* Lines 110-172 on their own: MCQ submissions for the three MCQs of the bank,
\* with answers that equal an option, differ from one only in case, or match
\* none.
MCQAnswers == Answers \cup {lower(HotGas)}

MCQInputs ==
    [question_id : {"q2", "q4", "q5"}, answer : MCQAnswers,
     current_score : Scores, total_questions_answered : {MaxScore},
     session_id : SessionIds]

MCQNext ==
    \E r \in Requests :
        \/ \E qa \in MCQInputs : Submit(r, qa, FALSE)
        \/ \E call \in TextCallOutcomes : MCQExplanationReturns(r, call)

MCQSpec == Init /\ [][MCQNext]_vars

(***************************************************************************)
(* The integrity-log endpoints of the same router, which share the module  *)
(* with the retry map.                                                     *)
(***************************************************************************)
MaxLogs == 1

\* The session ids the log endpoints are called with.
LogSessionIds == {"s1", "s2"}

\* POST /integrity-log: lines 79-83, the log appended to the list.
receive_integrity_log(session_id) ==
    /\ Len(integrity_logs) < MaxLogs
    /\ integrity_logs' = Append(integrity_logs, [session_id |-> session_id])
    /\ UNCHANGED <<retry_attempts, pc, quiz_answer, evaluation_result,
                   response, observed, granted, raced, clear_message>>
    /\ UNCHANGED websocket_vars

\* A clear-session that drops the retry counts of the session as well.
clear_session_logs_drops_retries(session_id) ==
    /\ integrity_logs' = SelectSeq(integrity_logs,
                                   LAMBDA log : log.session_id # session_id)
    /\ clear_message' =
          [session_id |-> session_id,
           cleared_count |-> Len(integrity_logs) - Len(integrity_logs')]
    /\ retry_attempts' = [s \in DOMAIN retry_attempts \ {session_id} |->
                             retry_attempts[s]]
    /\ UNCHANGED <<pc, quiz_answer, evaluation_result,
                   response, observed, granted, raced>>
    /\ UNCHANGED websocket_vars

\* POST /clear-session/{session_id}: lines 23-31.
clear_session_logs(session_id) ==
    LET initial_count == Len(integrity_logs)
        kept == SelectSeq(integrity_logs,
                          LAMBDA log : log.session_id # session_id)
    IN  /\ integrity_logs' = kept
        /\ clear_message' = [session_id |-> session_id,
                             cleared_count |-> initial_count - Len(kept)]
        /\ UNCHANGED <<retry_attempts, pc, quiz_answer, evaluation_result,
                       response, observed, granted, raced>>
        /\ UNCHANGED websocket_vars

\* The submissions of one client of session s1: an SAQ and an MCQ.
SessionInputs ==
    [question_id : {"q1", "q2"}, answer : {Gas}, current_score : {MaxScore},
     total_questions_answered : {MaxScore}, session_id : {"s1"}]

\* That client answering, and the log endpoints called in between.
SessionNext ==
    \/ \E r \in {1} :
          \/ \E qa \in SessionInputs, e \in BOOLEAN : Submit(r, qa, e)
          \/ \E out \in SemanticCallOutcomes :
                \E c \in Choices(out) : SemanticReturns(r, out, c)
          \/ \E call \in TextCallOutcomes : FeedbackReturns(r, call)
          \/ \E call \in TextCallOutcomes : MCQExplanationReturns(r, call)
    \/ \E s \in LogSessionIds : receive_integrity_log(s)
    \/ \E s \in LogSessionIds : clear_session_logs(s)

SessionSpec == Init /\ [][SessionNext]_vars

\* A client that takes the quiz once from the first question, waits for each
\* response and echoes the counters it returned: it resubmits the question
\* when the response asks for a retry, and otherwise goes on to the
\* response's next_question, until there is none.
EchoInputs ==
    LET last == response[1]
        started == pc[1] # "idle"
        question_id ==
            IF ~started THEN QuestionBank[1].question_id
            ELSE IF last.requires_retry THEN quiz_answer[1].question_id
            ELSE last.next_question
    IN  IF question_id = NoQuestion THEN {}
        ELSE [question_id : {question_id}, answer : Answers,
              current_score : {IF started THEN last.new_score ELSE 0},
              total_questions_answered :
                 {IF started THEN last.new_total_questions_answered ELSE 0},
              session_id : {"s1"}]

EchoNext ==
    \E r \in {1} :
        \/ \E qa \in EchoInputs, e \in BOOLEAN : Submit(r, qa, e)
        \/ \E out \in SemanticCallOutcomes : \E c \in Choices(out) :
              SemanticReturns(r, out, c)
        \/ \E call \in TextCallOutcomes : FeedbackReturns(r, call)
        \/ \E call \in TextCallOutcomes : MCQExplanationReturns(r, call)

EchoSpec == Init /\ [][EchoNext]_vars

\* Two requests of one client, received in a fixed order: request 1 first,
\* request 2 while request 1 is suspended at an await; their model calls
\* return in any order.
RaceNext ==
    \/ /\ pc[1] = "idle" /\ pc[2] = "idle"
       /\ \E qa \in SAQAnswers : Submit(1, qa, FALSE)
    \/ /\ pc[2] = "idle" /\ pc[1] \notin {"idle", "responded"}
       /\ \E qa \in SAQAnswers : Submit(2, qa, FALSE)
    \/ \E r \in Requests, out \in SemanticCallOutcomes :
          \E c \in Choices(out) : SemanticReturns(r, out, c)
    \/ \E r \in Requests, call \in TextCallOutcomes : FeedbackReturns(r, call)

RaceSpec == Init /\ [][RaceNext]_vars

\* Lines 252-288 and 376-403 on their own: the except branch grades `qa`
\* against `correct_answer` and the handler returns.
FallbackGrades(r, qa, correct_answer) ==
    /\ pc[r] \in {"idle", "responded"}
    /\ quiz_answer' = [quiz_answer EXCEPT ![r] = qa]
    /\ Respond(r, qa, saq_fallback_locals(qa, correct_answer), "fallback", <<>>)
    /\ UNCHANGED <<retry_attempts, evaluation_result, granted, raced>>
    /\ UNCHANGED <<session_logs, websocket_vars>>

\* The submissions the fallback is applied to.
FallbackQuizAnswers ==
    [question_id : {"q1"}, answer : FallbackAnswers, current_score : Scores,
     total_questions_answered : {MaxScore}, session_id : SessionIds]

\* The lexical fallback as a function of the two answers.
FallbackNext ==
    \E r \in Requests :
        \E qa \in FallbackQuizAnswers, c \in FallbackCorrectAnswers :
            FallbackGrades(r, qa, c)

FallbackSpec == Init /\ [][FallbackNext]_vars

(***************************************************************************)
(* The conversational quiz: QuizSession, QuizManager and websocket_quiz.   *)
(* A coroutine runs without interruption from one await to the next; each  *)
(* action below is one such stretch of one connection's websocket_quiz,    *)
(* ending where it issues the call it awaits next. Sending on a websocket  *)
(* after its close message raises RuntimeError (lines 218-221 rely on it). *)
(***************************************************************************)
\* is_correct_answer over the bank and the answers, computed once.
Grades ==
    [i \in DOMAIN question_bank.questions, a \in QuizSocketAnswers |->
        is_correct_answer(question_bank.questions[i], a)]

NumQuestions == Len(question_bank.questions)

\* send_json of one message of a type on websocket k.
Sent(socks, k, type) ==
    [socks EXCEPT ![k] =
        [socks[k] EXCEPT !.sent = [socks[k].sent EXCEPT ![type] = @ + 1]]]

\* Lines 151-154: QuizManager.disconnect.
QuizManager_disconnect(act, session_id) ==
    [s \in DOMAIN act \ {session_id} |-> act[s]]

\* Lines 146-147: the session registered under its id.
Registered(act, session_id, k) ==
    [s \in DOMAIN act \cup {session_id} |->
        IF s = session_id THEN k ELSE act[s]]

\* The coroutine of connection c goes on to the await `at`, evaluating an
\* answer on QuizSession k, leaving the state of the quiz as given.
Continues(c, at, session_id, k, n, act, sess, socks) ==
    /\ active_quiz_sessions' = act
    /\ quiz_sessions' = sess
    /\ quiz_websockets' = socks
    /\ quiz_handlers' = [quiz_handlers EXCEPT ![c] =
          [pc |-> at, session_id |-> session_id, session |-> k,
           received |-> n, exception |-> "none"]]

\* Lines 212-221: an exception reaches websocket_quiz. Both handlers remove
\* whatever is registered under the session id; any exception other than
\* WebSocketDisconnect is also reported on the connection's own websocket,
\* if that can still be sent on.
Raises(c, exc, session_id, n, act, sess, socks) ==
    /\ active_quiz_sessions' = QuizManager_disconnect(act, session_id)
    /\ quiz_sessions' = sess
    /\ quiz_websockets' =
          IF /\ exc # "WebSocketDisconnect"
             /\ socks[c].application_state = "connected"
          THEN Sent(socks, c, "ERROR")
          ELSE socks
    /\ quiz_handlers' = [quiz_handlers EXCEPT ![c] =
          [pc |-> "ended", session_id |-> session_id, session |-> 0,
           received |-> n, exception |-> exc]]

\* Lines 74-84 and 123-125: send_question of QuizSession k, run by the
\* coroutine of connection c, on the session's own websocket.
send_question(c, k, session_id, n, act, sess, socks) ==
    IF sess[k].current_question_index < NumQuestions
    THEN IF socks[k].application_state = "connected"
         THEN Continues(c, "new_question", session_id, 0, n, act, sess,
                        Sent(socks, k, "NEW_QUESTION"))
         ELSE Raises(c, "RuntimeError", session_id, n, act, sess, socks)
    ELSE IF socks[k].application_state = "connected"
         THEN Continues(c, "quiz_complete", session_id, k, n, act,
                 [sess EXCEPT ![k] =
                     [sess[k] EXCEPT !.quiz_completed = TRUE]],
                 [j \in DOMAIN socks |->
                     IF j = k
                     THEN [application_state |-> "connected",
                           sent |-> Sent(socks, k, "QUIZ_COMPLETE")[k].sent,
                           final_score |-> <<sess[k].score, NumQuestions>>]
                     ELSE socks[j]])
         ELSE Raises(c, "RuntimeError", session_id, n, act,
                 [sess EXCEPT ![k] =
                     [sess[k] EXCEPT !.quiz_completed = TRUE]],
                 socks)

\* Lines 146-149: the new QuizSession of connection c is registered and
\* sends its first question.
registers(c, session_id, act, socks) ==
    send_question(c, c, session_id, 0,
                  Registered(act, session_id, c),
                  [quiz_sessions EXCEPT ![c] = NewQuizSession],
                  socks)

\* The websocket of connection c once accept has returned.
Accepted(c) ==
    [quiz_websockets EXCEPT ![c] =
        [quiz_websockets[c] EXCEPT !.application_state = "connected"]]

\* Lines 159-193 and 138-149: a client connects to /ws/quiz/{session_id}.
\* The bank is built before the try: a bank that does not validate ends the
\* coroutine before the websocket is accepted. Otherwise connect accepts
\* and, when the id has a session, closes that session's websocket (await).
websocket_quiz(c, session_id, bank) ==
    /\ quiz_handlers[c].pc = "idle"
    /\ IF ~QuestionBankValid(bank)
       THEN /\ quiz_handlers' = [quiz_handlers EXCEPT ![c] =
                  [pc |-> "ended", session_id |-> session_id, session |-> 0,
                   received |-> 0, exception |-> "ValidationError"]]
            /\ UNCHANGED <<active_quiz_sessions, quiz_sessions,
                           quiz_websockets>>
       ELSE IF session_id \in DOMAIN active_quiz_sessions
       THEN IF quiz_websockets[active_quiz_sessions[session_id]]
                  .application_state = "connected"
            THEN Continues(c, "close_old", session_id, 0, 0,
                    active_quiz_sessions, quiz_sessions,
                    [j \in DOMAIN quiz_websockets |->
                        IF j = active_quiz_sessions[session_id]
                        THEN [quiz_websockets[j] EXCEPT
                                 !.application_state = "disconnected"]
                        ELSE Accepted(c)[j]])
            ELSE Raises(c, "RuntimeError", session_id, 0,
                        active_quiz_sessions, quiz_sessions, Accepted(c))
       ELSE registers(c, session_id, active_quiz_sessions, Accepted(c))
    /\ UNCHANGED <<assessment_vars, course_socket_vars>>

\* Lines 144-149: the old websocket is closed; connect deletes the entry of
\* the id, which raises KeyError if it is gone, and registers the session.
QuizManager_connect_resumes(c) ==
    /\ quiz_handlers[c].pc = "close_old"
    /\ IF quiz_handlers[c].session_id \in DOMAIN active_quiz_sessions
       THEN registers(c, quiz_handlers[c].session_id,
                      QuizManager_disconnect(active_quiz_sessions,
                                             quiz_handlers[c].session_id),
                      quiz_websockets)
       ELSE Raises(c, "KeyError", quiz_handlers[c].session_id, 0,
                   active_quiz_sessions, quiz_sessions, quiz_websockets)
    /\ UNCHANGED <<assessment_vars, course_socket_vars>>

\* An evaluate_answer without the guard of lines 87-88.
evaluate_answer_without_guard(c, k, answer) ==
    IF quiz_sessions[k].current_question_index >= NumQuestions
    THEN Raises(c, "IndexError", quiz_handlers[c].session_id,
                quiz_handlers[c].received + 1,
                active_quiz_sessions, quiz_sessions, quiz_websockets)
    ELSE IF quiz_websockets[k].application_state = "connected"
    THEN Continues(c, "feedback", quiz_handlers[c].session_id, k,
                   quiz_handlers[c].received + 1,
                   active_quiz_sessions,
                   [quiz_sessions EXCEPT ![k] =
                       [quiz_sessions[k] EXCEPT !.score =
                           IF Grades[quiz_sessions[k].current_question_index + 1,
                                     answer]
                           THEN @ + 1 ELSE @]],
                   Sent(quiz_websockets, k, "ANSWER_FEEDBACK"))
    ELSE Raises(c, "RuntimeError", quiz_handlers[c].session_id,
                quiz_handlers[c].received + 1,
                active_quiz_sessions,
                [quiz_sessions EXCEPT ![k] =
                    [quiz_sessions[k] EXCEPT !.score =
                        IF Grades[quiz_sessions[k].current_question_index + 1,
                                  answer]
                        THEN @ + 1 ELSE @]],
                quiz_websockets)

\* Lines 86-117: evaluate_answer of QuizSession k, called by the coroutine
\* of connection c, up to the await of the feedback's send_json.
evaluate_answer(c, k, answer) ==
    IF quiz_sessions[k].quiz_completed
    THEN Continues(c, "receive", quiz_handlers[c].session_id, 0,
                   quiz_handlers[c].received + 1,
                   active_quiz_sessions, quiz_sessions, quiz_websockets)
    ELSE IF quiz_sessions[k].current_question_index >= NumQuestions
    THEN Raises(c, "IndexError", quiz_handlers[c].session_id,
                quiz_handlers[c].received + 1,
                active_quiz_sessions, quiz_sessions, quiz_websockets)
    ELSE IF quiz_websockets[k].application_state = "connected"
    THEN Continues(c, "feedback", quiz_handlers[c].session_id, k,
                   quiz_handlers[c].received + 1,
                   active_quiz_sessions,
                   [quiz_sessions EXCEPT ![k] =
                       [quiz_sessions[k] EXCEPT !.score =
                           IF Grades[quiz_sessions[k].current_question_index + 1,
                                     answer]
                           THEN @ + 1 ELSE @]],
                   Sent(quiz_websockets, k, "ANSWER_FEEDBACK"))
    ELSE Raises(c, "RuntimeError", quiz_handlers[c].session_id,
                quiz_handlers[c].received + 1,
                active_quiz_sessions,
                [quiz_sessions EXCEPT ![k] =
                    [quiz_sessions[k] EXCEPT !.score =
                        IF Grades[quiz_sessions[k].current_question_index + 1,
                                  answer]
                        THEN @ + 1 ELSE @]],
                quiz_websockets)

\* An ERROR message of lines 204, 207 and 210 sent on the connection's own
\* websocket.
sends_error(c) ==
    IF quiz_websockets[c].application_state = "connected"
    THEN Continues(c, "error", quiz_handlers[c].session_id, 0,
                   quiz_handlers[c].received + 1,
                   active_quiz_sessions, quiz_sessions,
                   Sent(quiz_websockets, c, "ERROR"))
    ELSE Raises(c, "RuntimeError", quiz_handlers[c].session_id,
                quiz_handlers[c].received + 1,
                active_quiz_sessions, quiz_sessions, quiz_websockets)

\* Lines 195-210: receive_json returns a message of the client. A message the
\* client sent before the websocket was closed may still be delivered.
receive_json(c, message) ==
    /\ quiz_handlers[c].pc = "receive"
    /\ quiz_handlers[c].received < MaxMessages
    /\ IF message.type = "SUBMIT_ANSWER" /\ message.answer # None
       THEN IF quiz_handlers[c].session_id \in DOMAIN active_quiz_sessions
            THEN evaluate_answer(c,
                    active_quiz_sessions[quiz_handlers[c].session_id],
                    message.answer)
            ELSE sends_error(c)
       ELSE sends_error(c)
    /\ UNCHANGED <<assessment_vars, course_socket_vars>>

\* Lines 195 and 212-213: receive_json raises WebSocketDisconnect, because
\* the client went away or because the websocket was closed by the server.
receive_json_disconnects(c) ==
    /\ quiz_handlers[c].pc = "receive"
    /\ Raises(c, "WebSocketDisconnect", quiz_handlers[c].session_id,
              quiz_handlers[c].received,
              active_quiz_sessions, quiz_sessions,
              [quiz_websockets EXCEPT ![c] =
                  [quiz_websockets[c] EXCEPT
                      !.application_state = "disconnected"]])
    /\ UNCHANGED <<assessment_vars, course_socket_vars>>

\* Lines 119-120: the feedback is sent; the index advances and the coroutine
\* sleeps.
feedback_sent(c) ==
    /\ quiz_handlers[c].pc = "feedback"
    /\ Continues(c, "sleep", quiz_handlers[c].session_id,
                 quiz_handlers[c].session, quiz_handlers[c].received,
                 active_quiz_sessions,
                 [quiz_sessions EXCEPT ![quiz_handlers[c].session] =
                     [quiz_sessions[quiz_handlers[c].session] EXCEPT
                         !.current_question_index = @ + 1]],
                 quiz_websockets)
    /\ UNCHANGED <<assessment_vars, course_socket_vars>>

\* Line 121: the sleep is over; the next question or the completion is sent.
sleep_returns(c) ==
    /\ quiz_handlers[c].pc = "sleep"
    /\ send_question(c, quiz_handlers[c].session,
                     quiz_handlers[c].session_id, quiz_handlers[c].received,
                     active_quiz_sessions, quiz_sessions, quiz_websockets)
    /\ UNCHANGED <<assessment_vars, course_socket_vars>>

\* Line 131: QUIZ_COMPLETE is sent; the session closes its websocket.
quiz_complete_sent(c) ==
    /\ quiz_handlers[c].pc = "quiz_complete"
    /\ IF quiz_websockets[quiz_handlers[c].session].application_state
             = "connected"
       THEN Continues(c, "close", quiz_handlers[c].session_id, 0,
                      quiz_handlers[c].received,
                      active_quiz_sessions, quiz_sessions,
                      [quiz_websockets EXCEPT ![quiz_handlers[c].session] =
                          [quiz_websockets[quiz_handlers[c].session] EXCEPT
                              !.application_state = "disconnected"]])
       ELSE Raises(c, "RuntimeError", quiz_handlers[c].session_id,
                   quiz_handlers[c].received,
                   active_quiz_sessions, quiz_sessions, quiz_websockets)
    /\ UNCHANGED <<assessment_vars, course_socket_vars>>

\* A send or a close that is followed by nothing but the next receive_json
\* (lines 82, 131, 204, 207, 210) returns.
send_returns(c) ==
    /\ quiz_handlers[c].pc \in {"new_question", "close", "error"}
    /\ Continues(c, "receive", quiz_handlers[c].session_id, 0,
                 quiz_handlers[c].received,
                 active_quiz_sessions, quiz_sessions, quiz_websockets)
    /\ UNCHANGED <<assessment_vars, course_socket_vars>>

\* The messages the first c coroutines have received.
RECURSIVE ReceivedUpTo(_)
ReceivedUpTo(c) ==
    IF c = 0 THEN 0 ELSE quiz_handlers[c].received + ReceivedUpTo(c - 1)

\* Connections made one after the other, all for one session id, by clients
\* that send MaxMessages answers between them.
QuizSocketNext ==
    \E c \in Connections :
        \/ /\ \A b \in 1..(c - 1) : quiz_handlers[b].pc # "idle"
           /\ websocket_quiz(c, "s1", question_bank)
        \/ QuizManager_connect_resumes(c)
        \/ /\ ReceivedUpTo(MaxConnections) < MaxMessages
           /\ \E a \in QuizSocketAnswers :
                 receive_json(c, [type |-> "SUBMIT_ANSWER", answer |-> a])
        \/ receive_json_disconnects(c)
        \/ feedback_sent(c)
        \/ sleep_returns(c)
        \/ quiz_complete_sent(c)
        \/ send_returns(c)

QuizSocketSpec == Init /\ [][QuizSocketNext]_vars

\* One connection for each session id, with every message a client can send.
SoloSessionId == <<"s1", "s2">>

SoloQuizNext ==
    \E c \in DOMAIN SoloSessionId :
        \/ \E bank \in QuestionBanks :
              websocket_quiz(c, SoloSessionId[c], bank)
        \/ \E message \in QuizSocketMessages : receive_json(c, message)
        \/ receive_json_disconnects(c)
        \/ feedback_sent(c)
        \/ sleep_returns(c)
        \/ quiz_complete_sent(c)
        \/ send_returns(c)

SoloQuizSpec == Init /\ [][SoloQuizNext]_vars

\* One connection, whose coroutine is resumed whenever the send, the sleep or
\* the close it awaits is over; the client sends what it likes when it likes
\* and may go away.
OneQuizNext ==
    \/ \E bank \in QuestionBanks : websocket_quiz(1, "s1", bank)
    \/ \E message \in QuizSocketMessages : receive_json(1, message)
    \/ receive_json_disconnects(1)
    \/ feedback_sent(1)
    \/ sleep_returns(1)
    \/ quiz_complete_sent(1)
    \/ send_returns(1)

FairQuizSpec ==
    /\ Init
    /\ [][OneQuizNext]_vars
    /\ WF_vars(feedback_sent(1))
    /\ WF_vars(sleep_returns(1))
    /\ WF_vars(quiz_complete_sent(1))
    /\ WF_vars(send_returns(1))

(***************************************************************************)
(* The course-generation updates: ConnectionManager and                    *)
(* websocket_course_generation.                                            *)
(***************************************************************************)
\* Lines 21-25: ConnectionManager.disconnect.
ConnectionManager_disconnect(conns, w, course_id) ==
    IF course_id \notin DOMAIN conns THEN conns
    ELSE IF conns[course_id] \ {w} = {}
    THEN [k \in DOMAIN conns \ {course_id} |-> conns[k]]
    ELSE [conns EXCEPT ![course_id] = @ \ {w}]

\* Lines 18-19: ConnectionManager.connect after the accept. The set of the
\* course is looked up exactly when the dict has no such key, which raises
\* KeyError; when the dict has the key nothing is added.
ConnectionManager_connect(conns, w, course_id) ==
    IF course_id \notin DOMAIN conns
    THEN [raised |-> TRUE, connections |-> conns]
    ELSE [raised |-> FALSE, connections |-> conns]

\* Lines 47-49 and 16-17: a client opens /course/{course_id}/generation; the
\* coroutine awaits the accept.
websocket_course_generation(w, course_id) ==
    /\ course_handlers[w].pc = "idle"
    /\ course_handlers' = [course_handlers EXCEPT ![w] =
          [pc |-> "accept", course_id |-> course_id, exception |-> "none"]]
    /\ UNCHANGED <<active_connections, item_update>>
    /\ UNCHANGED <<assessment_vars, quiz_socket_vars>>

\* The coroutine goes on. After the accept: lines 18-19, and the KeyError of
\* connect leaves websocket_course_generation, which catches
\* WebSocketDisconnect only. In the receive loop (lines 52-56): the client
\* goes away and the websocket is removed from its course.
websocket_course_generation_resumes(w) ==
    /\ course_handlers[w].pc \in {"accept", "receive"}
    /\ IF course_handlers[w].pc = "accept"
       THEN /\ active_connections' =
                  ConnectionManager_connect(active_connections, w,
                     course_handlers[w].course_id).connections
            /\ course_handlers' = [course_handlers EXCEPT ![w] =
                  IF ConnectionManager_connect(active_connections, w,
                        course_handlers[w].course_id).raised
                  THEN [pc |-> "ended",
                        course_id |-> course_handlers[w].course_id,
                        exception |-> "KeyError"]
                  ELSE [pc |-> "receive",
                        course_id |-> course_handlers[w].course_id,
                        exception |-> "none"]]
       ELSE /\ active_connections' =
                  ConnectionManager_disconnect(active_connections, w,
                     course_handlers[w].course_id)
            /\ course_handlers' = [course_handlers EXCEPT ![w] =
                  [pc |-> "ended",
                   course_id |-> course_handlers[w].course_id,
                   exception |-> "WebSocketDisconnect"]]
    /\ UNCHANGED item_update
    /\ UNCHANGED <<assessment_vars, quiz_socket_vars>>

\* Lines 27-38: send_item_update sends the data to every websocket of the
\* course and disconnects those whose send_json raised.
send_item_update(course_id, failing) ==
    /\ failing \subseteq
          (IF course_id \in DOMAIN active_connections
           THEN active_connections[course_id] ELSE {})
    /\ item_update' =
          [course_id |-> course_id,
           sent_to |-> (IF course_id \in DOMAIN active_connections
                        THEN active_connections[course_id] ELSE {})
                          \ failing]
    /\ active_connections' =
          IF course_id \notin DOMAIN active_connections
             \/ active_connections[course_id] \ failing # {}
          THEN [k \in DOMAIN active_connections |->
                   IF k = course_id THEN active_connections[k] \ failing
                   ELSE active_connections[k]]
          ELSE [k \in DOMAIN active_connections \ {course_id} |->
                   active_connections[k]]
    /\ UNCHANGED course_handlers
    /\ UNCHANGED <<assessment_vars, quiz_socket_vars>>

CourseNext ==
    \/ \E w \in Connections, course_id \in CourseIds :
          websocket_course_generation(w, course_id)
    \/ \E w \in Connections : websocket_course_generation_resumes(w)
    \/ \E course_id \in CourseIds, failing \in SUBSET Connections :
          send_item_update(course_id, failing)

CourseSpec == Init /\ [][CourseNext]_vars

(***************************************************************************)
(* What the properties speak of.                                           *)
(***************************************************************************)
\* The step in which request r sends its response.
Completes(r) == pc[r] # "responded" /\ pc'[r] = "responded"

\* Request r has responded on the LLM path (the evaluator returned a feedback).
LLMResponse(r) == pc[r] = "responded" /\ observed[r].path = "llm"

\* The feedback the evaluator returned had requires_retry set: the score of
\* the semantic result was in [0.6, 0.9).
RetryEligible(result) ==
    result.correctness >= 60 /\ result.correctness < 90

\* The id of the question after question_id in the bank, if any.
Following(question_id) ==
    LET here == {i \in 1..Len(QuestionBank) :
                    QuestionBank[i].question_id = question_id}
        after == {i + 1 : i \in here} \cap (1..Len(QuestionBank))
    IN  IF after = {} THEN NoQuestion
        ELSE QuestionBank[CHOOSE i \in after : TRUE].question_id

C2_CorrectAwardsAndResets ==
    [][\A r \in Requests :
          ( /\ Completes(r)
            /\ observed'[r].path = "llm"
            /\ evaluation_result'[r].feedback_category = "correct" )
          => /\ response'[r].is_correct
             /\ response'[r].new_score = quiz_answer[r].current_score + 1
             /\ ~response'[r].requires_retry
             /\ response'[r].feedback_type = "correct"
             /\ has_entry(retry_attempts', pair_of(quiz_answer[r]))
             /\ attempts_of(retry_attempts', pair_of(quiz_answer[r])) = 0
      ]_vars

\* A correct verdict came for a pair whose count was 1, with a feedback whose
\* retry flag was set.
C2_Witness ==
    \E r \in Requests :
        /\ LLMResponse(r)
        /\ evaluation_result[r].feedback_category = "correct"
        /\ RetryEligible(evaluation_result[r])
        /\ observed[r].current_attempts = 1
        /\ response[r].is_correct
        /\ attempts_of(retry_attempts, pair_of(quiz_answer[r])) = 0

(***************************************************************************)
(* C3. In the LLM path a submission evaluated partially_correct while the  *)
(* count of its pair is 1, or evaluated incorrect at any count, gets the   *)
(* final verdict: requires_retry false, is_correct false, score kept, and  *)
(* next_question the question after the answered one (none after the       *)
(* last).                                                                  *)
(***************************************************************************)
C3_FinalVerdict ==
    \A r \in Requests :
        ( /\ LLMResponse(r)
          /\ \/ /\ evaluation_result[r].feedback_category = "partially_correct"
                /\ observed[r].current_attempts = 1
             \/ evaluation_result[r].feedback_category = "incorrect" )
        => /\ ~response[r].requires_retry
           /\ ~response[r].is_correct
           /\ response[r].new_score = quiz_answer[r].current_score
           /\ response[r].next_question = Following(quiz_answer[r].question_id)

\* A second partially_correct answer, still in the retry band, was refused.
C3_Witness ==
    \E r \in Requests :
        /\ LLMResponse(r)
        /\ evaluation_result[r].feedback_category = "partially_correct"
        /\ RetryEligible(evaluation_result[r])
        /\ observed[r].current_attempts = 1
        /\ ~response[r].requires_retry
        /\ response[r].next_question = "q2"

(***************************************************************************)
(* C4. As claimed: over any sequence of submissions for one pair, a        *)
(* response with requires_retry set is returned at most once.              *)
(***************************************************************************)
C4_AtMostOneRetryEver ==
    [][\A r \in Requests :
          (Completes(r) /\ response'[r].requires_retry)
          => pair_of(quiz_answer[r]) \notin granted
      ]_vars

(***************************************************************************)
(* C4, amended: a response with requires_retry set is returned only when   *)
(* the count of the pair is 0, and leaves it at 1; the count of a pair     *)
(* leaves 1 only by an LLM-path response with feedback_type correct for    *)
(* that pair. So a correct verdict lies between any two retries of a pair, *)
(* and without one no second retry is granted.                             *)
(***************************************************************************)
C4_OneRetryUntilCorrect ==
    [][ /\ \A r \in Requests :
              (Completes(r) /\ response'[r].requires_retry)
              => /\ attempts_of(retry_attempts, pair_of(quiz_answer[r])) = 0
                 /\ attempts_of(retry_attempts', pair_of(quiz_answer[r])) = 1
        /\ \A k \in DOMAIN retry_attempts : \A q \in DOMAIN retry_attempts[k] :
              ( /\ retry_attempts[k][q] = 1
                /\ attempts_of(retry_attempts', <<k, q>>) # 1 )
              => \E r \in Requests :
                    /\ Completes(r)
                    /\ pair_of(quiz_answer[r]) = <<k, q>>
                    /\ observed'[r].path = "llm"
                    /\ response'[r].feedback_type = "correct"
                    /\ attempts_of(retry_attempts', <<k, q>>) = 0
      ]_vars

\* One request holds the retry of a pair, and another request of the pair, in
\* the retry band too, was refused a second one.
C4_Witness ==
    \E r1, r2 \in Requests :
        /\ r1 # r2
        /\ pair_of(quiz_answer[r1]) = pair_of(quiz_answer[r2])
        /\ LLMResponse(r1) /\ response[r1].requires_retry
        /\ LLMResponse(r2) /\ ~response[r2].requires_retry
        /\ evaluation_result[r2].feedback_category = "partially_correct"
        /\ RetryEligible(evaluation_result[r2])
        /\ observed[r2].current_attempts = 1
        /\ pair_of(quiz_answer[r2]) \in granted

(***************************************************************************)
(* C5. A response with requires_retry set does not advance the quiz: it    *)
(* does not carry the question after the answered one, nor the final-score *)
(* summary.                                                                *)
(***************************************************************************)
C5_RetryDoesNotAdvance ==
    \A r \in Requests :
        (pc[r] = "responded" /\ response[r].requires_retry)
        => /\ response[r].next_question = NoQuestion
           /\ response[r].final_score = None

(***************************************************************************)
(* C6. As claimed: when two requests of one pair wait together, both       *)
(* partially_correct and retry-eligible, count 0, and one of them has been *)
(* granted the retry, the other can still respond with requires_retry set. *)
(***************************************************************************)
C6_RaceBothGranted ==
    \A r1, r2 \in raced :
        ( /\ r1 # r2
          /\ pair_of(quiz_answer[r1]) = pair_of(quiz_answer[r2])
          /\ pc[r1] = "responded" /\ response[r1].requires_retry
          /\ pc[r2] = "generate_hint" )
        => ENABLED (FeedbackReturns(r2, "ok") /\ response'[r2].requires_retry)

(***************************************************************************)
(* C6, amended: of two requests of one pair that waited together, both     *)
(* partially_correct and retry-eligible, count 0, at most one responds     *)
(* with requires_retry set, as long as the count of the pair is not reset  *)
(* by a correct verdict in between: the count is read and written without  *)
(* an await in between.                                                    *)
(***************************************************************************)
C6_RaceGrantsOne ==
    \A r1, r2 \in raced :
        ( /\ r1 # r2
          /\ pair_of(quiz_answer[r1]) = pair_of(quiz_answer[r2])
          /\ pc[r1] = "responded"
          /\ pc[r2] = "responded" )
        => ~(response[r1].requires_retry /\ response[r2].requires_retry)

\* Both requests of a race have responded: the first was granted, the second
\* read the count the first left.
C6_Witness ==
    \E r1, r2 \in raced :
        /\ r1 # r2
        /\ pair_of(quiz_answer[r1]) = pair_of(quiz_answer[r2])
        /\ pc[r1] = "responded" /\ response[r1].requires_retry
        /\ pc[r2] = "responded" /\ ~response[r2].requires_retry
        /\ observed[r1].current_attempts = 0
        /\ observed[r2].current_attempts = 1

(***************************************************************************)
(* C7. In every reachable state the count of every pair present in the     *)
(* retry map is 0 or 1.                                                    *)
(***************************************************************************)
C7_CountIsZeroOrOne ==
    \A k \in DOMAIN retry_attempts : \A q \in DOMAIN retry_attempts[k] :
        retry_attempts[k][q] \in {0, 1}

\* A pair at 1 and a pair at 0, while a request of the first waits for its hint.
C7_Witness ==
    \E k \in DOMAIN retry_attempts : \E q1, q2 \in DOMAIN retry_attempts[k] :
        /\ retry_attempts[k][q1] = 1
        /\ retry_attempts[k][q2] = 0
        /\ \E r \in Requests :
              /\ pc[r] = "generate_hint"
              /\ pair_of(quiz_answer[r]) = <<k, q1>>

(***************************************************************************)
(* C8. Every SAQ submission whose question is in the bank gets a normal    *)
(* response (status 200) whose feedback_type is correct, partially_correct *)
(* or incorrect, whether the model calls succeed or raise; and, every      *)
(* model call returning or raising, every such request responds.           *)
(***************************************************************************)
C8_AlwaysStructuredVerdict ==
    /\ [](\A r \in Requests :
            ( /\ pc[r] = "responded"
              /\ find_question(quiz_answer[r].question_id) # 0
              /\ QuestionBank[find_question(quiz_answer[r].question_id)]
                    .question_type = "saq" )
            => /\ response[r].status = 200
               /\ response[r].feedback_type \in Categories)
    /\ \A r \in Requests :
          (pc[r] \in {"semantic_evaluation", "generate_hint",
                      "generate_incorrect_feedback"})
            ~> (pc[r] = "responded")

\* A request whose semantic call raised has its verdict, and so has a request
\* whose feedback call raised.
C8_Witness ==
    \E r1, r2 \in Requests :
        /\ pc[r1] = "responded" /\ observed[r1].path = "fallback"
        /\ observed[r1].calls = <<[call |-> "semantic", ok |-> FALSE]>>
        /\ response[r1].status = 200
        /\ LLMResponse(r2)
        /\ Len(observed[r2].calls) = 2 /\ ~observed[r2].calls[2].ok
        /\ response[r2].status = 200

(***************************************************************************)
(* C9. When the semantic call fails (an error of the call, or an output    *)
(* that does not validate), no SemanticEvaluationResult is obtained, no    *)
(* feedback call is made, and the request is graded by the lexical         *)
(* fallback.                                                               *)
(***************************************************************************)
C9_SemanticFailureFallsBack ==
    \A r \in Requests :
        ( /\ Len(observed[r].calls) >= 1
          /\ observed[r].calls[1].call = "semantic"
          /\ ~observed[r].calls[1].ok )
        => /\ pc[r] = "responded"
           /\ observed[r].path = "fallback"
           /\ evaluation_result[r] = NoResult
           /\ Len(observed[r].calls) = 1
           /\ ~response[r].requires_retry
           /\ response[r] =
                 QuizFeedback(
                    saq_fallback_locals(quiz_answer[r],
                       saq_correct_answer(
                          QuestionBank[find_question(quiz_answer[r].question_id)])),
                    find_question(quiz_answer[r].question_id))

\* A request whose semantic call failed was graded partially_correct by the
\* word overlap.
C9_Witness ==
    \E r \in Requests :
        /\ pc[r] = "responded"
        /\ observed[r].calls = <<[call |-> "semantic", ok |-> FALSE]>>
        /\ response[r].feedback_type = "partially_correct"
        /\ response[r].explanation =
              <<"Good start! You have some key concepts right. The complete answer is: ">>
                \o QuestionBank[1].ideal_answer

(***************************************************************************)
(* C10. As claimed: a failed model call of the Feedback Generator (hint or *)
(* explanation) never ends in a response with requires_retry set.          *)
(***************************************************************************)
C10_FailedFeedbackNeverRetries ==
    \A r \in Requests :
        ( /\ LLMResponse(r)
          /\ Len(observed[r].calls) = 2
          /\ ~observed[r].calls[2].ok )
        => ~response[r].requires_retry

(***************************************************************************)
(* C10, amended: a failed model call of the Feedback Generator yields a    *)
(* fixed string and does not change requires_retry, which stays what the   *)
(* score band gives. After a failed explanation call (score < 0.6) the     *)
(* response never has requires_retry set; after a failed hint call         *)
(* (0.6 <= score < 0.9) it has, with the fixed hint, exactly when the      *)
(* category is partially_correct and the count read is 0.                  *)
(***************************************************************************)
C10_FailedFeedbackKeepsBand ==
    \A r \in Requests :
        ( /\ LLMResponse(r)
          /\ Len(observed[r].calls) = 2
          /\ ~observed[r].calls[2].ok )
        => /\ observed[r].calls[2].call = "incorrect_feedback"
                => /\ ~response[r].requires_retry
                   /\ response[r].explanation =
                         <<"Not quite right. The correct answer is: ">>
                           \o response[r].correct_answer
                           \o <<". Please review the material and try again.">>
           /\ observed[r].calls[2].call = "hint"
                => /\ response[r].explanation = HintFallback
                   /\ response[r].requires_retry
                        <=> /\ response[r].feedback_type = "partially_correct"
                            /\ observed[r].current_attempts = 0
                   /\ response[r].requires_retry
                        => response[r].hint = HintFallback

\* The hint call raised and the retry was granted with the fixed hint.
C10_Witness ==
    \E r \in Requests :
        /\ LLMResponse(r)
        /\ observed[r].calls = <<[call |-> "semantic", ok |-> TRUE],
                                 [call |-> "hint", ok |-> FALSE]>>
        /\ response[r].requires_retry
        /\ response[r].hint = HintFallback

(***************************************************************************)
(* C11. generate_dynamic_feedback never raises, whatever the result and    *)
(* however its model call ends; so a request is graded by the lexical      *)
(* fallback only when the evaluator could not be built or its semantic     *)
(* call failed, and every request whose feedback call was issued responds  *)
(* on the LLM path.                                                        *)
(***************************************************************************)
C11_FeedbackStageNeverRaises ==
    \A r \in Requests :
        /\ evaluation_result[r] # NoResult
             => \A call \in TextCallOutcomes \cup {"none"} :
                \A choice \in 1..NumCorrectResponses :
                   generate_dynamic_feedback(evaluation_result[r],
                      response[r].correct_answer, choice, call)
                     # FeedbackException
        /\ observed[r].path = "fallback"
             => /\ evaluation_result[r] = NoResult
                /\ observed[r].calls \in
                      {<<>>, <<[call |-> "semantic", ok |-> FALSE]>>}
        /\ (pc[r] = "responded" /\ Len(observed[r].calls) = 2)
             => observed[r].path = "llm"

\* The explanation call of a request raised and the request responded on the
\* LLM path, with the verdict of its semantic result.
C11_Witness ==
    \E r \in Requests :
        /\ LLMResponse(r)
        /\ observed[r].calls = <<[call |-> "semantic", ok |-> TRUE],
                                 [call |-> "incorrect_feedback", ok |-> FALSE]>>
        /\ evaluation_result[r].correctness < PartialThreshold
        /\ response[r].feedback_type = evaluation_result[r].feedback_category

(***************************************************************************)
(* C12. In the fallback path the verdict is a function of the ratio of the *)
(* distinct non-stop words of the reference answer found in the student    *)
(* answer (case ignored) to the distinct non-stop words of the reference   *)
(* answer: ratio >= 0.85 gives correct, is_correct and the score;          *)
(* 0.50 <= ratio < 0.85 gives partially_correct and no score; ratio < 0.50 *)
(* gives incorrect and no score.                                           *)
(***************************************************************************)
C12_FallbackBands ==
    \A r \in Requests :
        (pc[r] = "responded" /\ observed[r].path = "fallback")
        => LET ideal_words ==
                  split_set(strip(lower(response[r].correct_answer)))
                     \ stop_words
               found == {w \in ideal_words :
                            w \in split_set(strip(lower(quiz_answer[r].answer)))}
               n == Cardinality(found)
               d == Cardinality(ideal_words)
               awarded == /\ response[r].is_correct
                          /\ response[r].new_score
                                = quiz_answer[r].current_score + 1
               refused == /\ ~response[r].is_correct
                          /\ response[r].new_score
                                = quiz_answer[r].current_score
           IN  d > 0
               => /\ 100 * n >= 85 * d
                       => response[r].feedback_type = "correct" /\ awarded
                  /\ (100 * n >= 50 * d /\ 100 * n < 85 * d)
                       => response[r].feedback_type = "partially_correct"
                          /\ refused
                  /\ 100 * n < 50 * d
                       => response[r].feedback_type = "incorrect" /\ refused

\* The two boundaries: 17 of 20 words graded correct, 10 of 20 graded
\* partially_correct.
C12_Witness ==
    \E r1, r2 \in Requests :
        /\ pc[r1] = "responded" /\ observed[r1].path = "fallback"
        /\ response[r1].correct_answer = TwentyWords
        /\ quiz_answer[r1].answer = FirstWords(17)
        /\ response[r1].feedback_type = "correct"
        /\ pc[r2] = "responded" /\ observed[r2].path = "fallback"
        /\ response[r2].correct_answer = TwentyWords
        /\ quiz_answer[r2].answer = FirstWords(10)
        /\ response[r2].feedback_type = "partially_correct"

(***************************************************************************)
(* C13. The fallback path never grants a retry: every response of the      *)
(* lexical fallback has requires_retry false and no hint, in every band of *)
(* the ratio and whatever the count of the pair is.                        *)
(***************************************************************************)
C13_FallbackNeverRetries ==
    \A r \in Requests :
        (pc[r] = "responded" /\ observed[r].path = "fallback")
        => /\ ~response[r].requires_retry
           /\ response[r].hint = None

\* A fallback response in the partial band for a pair whose count is 0 and
\* that was never granted a retry.
C13_Witness ==
    \E r \in Requests :
        /\ pc[r] = "responded" /\ observed[r].path = "fallback"
        /\ response[r].feedback_type = "partially_correct"
        /\ attempts_of(retry_attempts, pair_of(quiz_answer[r])) = 0
        /\ pair_of(quiz_answer[r]) \notin granted

(***************************************************************************)
(* C14. For every semantic result obtained in the LLM path, the            *)
(* feedback_type of the response is the band of the score: correct when    *)
(* the score is at least 0.9, partially_correct when it is in [0.6, 0.9),  *)
(* incorrect when it is below 0.6.                                         *)
(***************************************************************************)
BandCategory(correctness) ==
    IF correctness >= CorrectThreshold THEN "correct"
    ELSE IF correctness >= PartialThreshold THEN "partially_correct"
    ELSE "incorrect"

C14_CategoryFollowsBand ==
    \A r \in Requests :
        LLMResponse(r)
        => response[r].feedback_type
              = BandCategory(evaluation_result[r].correctness)

(***************************************************************************)
(* C15. The requires_retry flag the feedback generator returns is true     *)
(* exactly when the score is in [0.6, 0.9): true at 0.6, false at 0.9,     *)
(* false below 0.6 and from 0.9 up, whatever category the model returned   *)
(* and whether or not the hint or explanation call succeeded. At count 0   *)
(* a partially_correct response carries that flag unchanged.               *)
(***************************************************************************)
C15_RetryFlagIffPartialBand ==
    \A r \in Requests :
        evaluation_result[r] # NoResult
        => /\ \A call \in TextCallOutcomes \cup {"none"},
                 choice \in 1..NumCorrectResponses :
                 generate_dynamic_feedback(evaluation_result[r],
                     saq_correct_answer(QuestionBank[
                        find_question(quiz_answer[r].question_id)]),
                     choice, call).requires_retry
                 <=> (/\ evaluation_result[r].correctness >= 60
                      /\ evaluation_result[r].correctness < 90)
           /\ (/\ LLMResponse(r)
               /\ observed[r].current_attempts = 0
               /\ response[r].feedback_type = "partially_correct")
              => (response[r].requires_retry
                  <=> (/\ evaluation_result[r].correctness >= 60
                       /\ evaluation_result[r].correctness < 90))

\* Both boundaries with categories that disagree with the band: one request
\* answered at count 0 with score 0.6 and a retry, another with score 0.9,
\* category partially_correct and no retry.
C15_Witness ==
    \E r, o \in Requests :
        /\ LLMResponse(r) /\ LLMResponse(o)
        /\ evaluation_result[r].correctness = 60
        /\ response[r].feedback_type = "partially_correct"
        /\ response[r].requires_retry
        /\ evaluation_result[o].correctness = 90
        /\ response[o].feedback_type = "partially_correct"
        /\ observed[o].current_attempts = 0
        /\ ~response[o].requires_retry

(***************************************************************************)
(* C16. A response has requires_retry true only if the question is an SAQ  *)
(* graded in the LLM path, the semantic score is in [0.6, 0.9), the        *)
(* category is partially_correct and the count of the pair was 0. So for   *)
(* every score below 0.6 or from 0.9 up the response has requires_retry    *)
(* false, whatever the category and the count.                             *)
(***************************************************************************)
C16_RetryOnlyWhenAllHold ==
    \A r \in Requests :
        (pc[r] = "responded" /\ response[r].requires_retry)
        => /\ response[r].status = 200
           /\ observed[r].path = "llm"
           /\ QuestionBank[find_question(quiz_answer[r].question_id)]
                 .question_type = "saq"
           /\ evaluation_result[r] # NoResult
           /\ evaluation_result[r].correctness >= 60
           /\ evaluation_result[r].correctness < 90
           /\ response[r].feedback_type = "partially_correct"
           /\ observed[r].current_attempts = 0

\* A retry granted at the upper end of the band, after both calls.
C16_Witness ==
    \E r \in Requests :
        /\ pc[r] = "responded" /\ response[r].requires_retry
        /\ evaluation_result[r].correctness = 89
        /\ Len(observed[r].calls) = 2

(***************************************************************************)
(* C17. In every response of the endpoint (MCQ, SAQ in the LLM path, SAQ   *)
(* in the fallback path) feedback_type correct implies requires_retry      *)
(* false.                                                                  *)
(***************************************************************************)
C17_CorrectNeverRetries ==
    \A r \in Requests :
        (/\ pc[r] = "responded"
         /\ response[r].status = 200
         /\ response[r].feedback_type = "correct")
        => ~response[r].requires_retry

\* A correct verdict in the LLM path for a score of the partial band, where
\* the feedback generator had set requires_retry, at count 0.
C17_Witness ==
    \E r \in Requests :
        /\ LLMResponse(r)
        /\ response[r].feedback_type = "correct"
        /\ evaluation_result[r].correctness = 60
        /\ observed[r].current_attempts = 0
        /\ ~response[r].requires_retry

(***************************************************************************)
(* C18. In every response (MCQ, SAQ in the LLM path, SAQ in the fallback   *)
(* path) is_correct means the point was awarded: new_score is              *)
(* current_score + 1 when is_correct is true and current_score when it is  *)
(* false; is_correct and requires_retry are never both true.               *)
(***************************************************************************)
C18_IsCorrectMeansAwarded ==
    \A r \in Requests :
        (pc[r] = "responded" /\ response[r].status = 200)
        => /\ response[r].is_correct
              => response[r].new_score = quiz_answer[r].current_score + 1
           /\ ~response[r].is_correct
              => response[r].new_score = quiz_answer[r].current_score
           /\ ~(response[r].is_correct /\ response[r].requires_retry)

\* A granted retry, where the point is withheld, for a pair that has its
\* entry in the retry map.
C18_Witness ==
    \E r \in Requests :
        /\ LLMResponse(r)
        /\ response[r].requires_retry
        /\ ~response[r].is_correct
        /\ response[r].new_score = quiz_answer[r].current_score
        /\ attempts_of(retry_attempts, pair_of(quiz_answer[r])) = 1

(***************************************************************************)
(* C19. A submission whose question_id matches no question of the bank     *)
(* fails with status 404: no model call is made for it, and the step that  *)
(* answers it leaves the retry map unchanged (no entry is created, no      *)
(* count is modified).                                                     *)
(***************************************************************************)
UnknownQuestion(qa) ==
    \A i \in 1..Len(QuestionBank) :
        QuestionBank[i].question_id # qa.question_id

C19_UnknownQuestionIs404 ==
    /\ [](\A r \in Requests :
            (pc[r] # "idle" /\ UnknownQuestion(quiz_answer[r]))
            => /\ pc[r] = "responded"
               /\ response[r].status = 404
               /\ observed[r].calls = <<>>
               /\ evaluation_result[r] = NoResult)
    /\ [][\A r \in Requests :
            (/\ UnknownQuestion(quiz_answer'[r])
             /\ quiz_answer'[r] # quiz_answer[r])
            => /\ pc'[r] = "responded"
               /\ response'[r].status = 404
               /\ retry_attempts' = retry_attempts
               /\ granted' = granted]_vars

\* A 404 for an unknown id while the retry map holds a count of 1.
C19_Witness ==
    \E r \in Requests :
        /\ pc[r] = "responded"
        /\ UnknownQuestion(quiz_answer[r])
        /\ response[r].status = 404
        /\ \E p \in Pairs : attempts_of(retry_attempts, p) = 1

(***************************************************************************)
(* C20. A submission without a session id is tracked under the key         *)
(* fallback-<question id>, and the retry tracking works under that key:    *)
(* the response grants a retry exactly when the verdict is                 *)
(* partially_correct, the score is retry-eligible and the count under that *)
(* key is 0, and the count is then 1; a correct verdict resets it to 0;    *)
(* any other verdict leaves it. The count belongs to the question id, not  *)
(* to the submitter: every submission without a session id for that        *)
(* question reads and writes it, and the counts of other pairs are left    *)
(* alone.                                                                  *)
(***************************************************************************)
FallbackPair(qa) == <<"fallback-" \o qa.question_id, qa.question_id>>

C20_FallbackKeyTracksRetries ==
    [][\A r \in Requests :
         (/\ Completes(r)
          /\ quiz_answer[r].session_id = NoSession
          /\ observed'[r].path = "llm")
         => /\ has_entry(retry_attempts', FallbackPair(quiz_answer[r]))
            /\ NoSession \notin DOMAIN retry_attempts'
            /\ observed'[r].current_attempts
                 = attempts_of(retry_attempts, FallbackPair(quiz_answer[r]))
            /\ response'[r].requires_retry
               <=> (/\ response'[r].feedback_type = "partially_correct"
                    /\ RetryEligible(evaluation_result'[r])
                    /\ attempts_of(retry_attempts,
                                   FallbackPair(quiz_answer[r])) = 0)
            /\ response'[r].requires_retry
               => attempts_of(retry_attempts',
                              FallbackPair(quiz_answer[r])) = 1
            /\ response'[r].feedback_type = "correct"
               => attempts_of(retry_attempts',
                              FallbackPair(quiz_answer[r])) = 0
            /\ (/\ ~response'[r].requires_retry
                /\ response'[r].feedback_type # "correct")
               => attempts_of(retry_attempts',
                              FallbackPair(quiz_answer[r]))
                    = attempts_of(retry_attempts,
                                  FallbackPair(quiz_answer[r]))
            /\ \A s \in {"s1", "fallback-q1", "fallback-q3"},
                  q \in {"q1", "q3"} :
                  <<s, q>> # FallbackPair(quiz_answer[r])
                  => /\ attempts_of(retry_attempts', <<s, q>>)
                          = attempts_of(retry_attempts, <<s, q>>)
                     /\ has_entry(retry_attempts', <<s, q>>)
                          <=> has_entry(retry_attempts, <<s, q>>)]_vars

\* A retry-eligible partially_correct submission without session id that is
\* denied its retry because the count under fallback-q1 is 1, while the pair
\* of session s1 for the same question holds 0.
C20_Witness ==
    \E r \in Requests :
        /\ LLMResponse(r)
        /\ quiz_answer[r].session_id = NoSession
        /\ quiz_answer[r].question_id = "q1"
        /\ response[r].feedback_type = "partially_correct"
        /\ RetryEligible(evaluation_result[r])
        /\ ~response[r].requires_retry
        /\ observed[r].current_attempts = 1
        /\ retry_attempts["fallback-q1"]["q1"] = 1
        /\ has_entry(retry_attempts, <<"s1", "q1">>)
        /\ retry_attempts["s1"]["q1"] = 0

(***************************************************************************)
(* C21. An MCQ submission is graded by exact string equality: is_correct   *)
(* is true exactly when the submitted answer equals, character for         *)
(* character, the text of the first option flagged correct; then the score *)
(* is current_score + 1 and feedback_type is correct; otherwise the score  *)
(* is unchanged and feedback_type is incorrect.                            *)
(***************************************************************************)
\* The options of the question flagged correct, as indices.
Flagged(question) ==
    {i \in 1..Len(question.mcq_options) : question.mcq_options[i].is_correct}

\* The question has a flagged option and the answer is the text of the first.
EqualsFirstFlagged(question, answer) ==
    \E i \in Flagged(question) :
        /\ \A j \in Flagged(question) : i <= j
        /\ Len(answer) = Len(question.mcq_options[i].text)
        /\ \A k \in 1..Len(answer) :
              answer[k] = question.mcq_options[i].text[k]

MCQResponse(r) ==
    /\ pc[r] = "responded"
    /\ response[r].status = 200
    /\ QuestionBank[find_question(quiz_answer[r].question_id)]
          .question_type = "mcq"

WrongChoice(question, answer) ==
    /\ Flagged(question) # {}
    /\ ~EqualsFirstFlagged(question, answer)
    /\ \E i \in 1..Len(question.mcq_options) :
          question.mcq_options[i].text = answer

C22_WrongChoiceBestEffort ==
    \A r \in Requests :
        LET question == QuestionBank[find_question(quiz_answer[r].question_id)]
            first == CHOOSE i \in Flagged(question) :
                        \A j \in Flagged(question) : i <= j
        IN  (/\ pc[r] # "idle"
             /\ find_question(quiz_answer[r].question_id) # 0
             /\ question.question_type = "mcq"
             /\ WrongChoice(question, quiz_answer[r].answer))
            => /\ pc[r] \in {"mcq_explanation", "responded"}
               /\ pc[r] = "responded"
                  => /\ Len(observed[r].calls) = 1
                     /\ observed[r].calls[1].call = "mcq_explanation"
                     /\ response[r].status = 200
                     /\ ~response[r].is_correct
                     /\ response[r].feedback_type = "incorrect"
                     /\ response[r].new_score = quiz_answer[r].current_score
                     /\ response[r].correct_answer
                          = question.mcq_options[first].text
                     /\ ~response[r].requires_retry
                     /\ ~observed[r].calls[1].ok
                        => response[r].explanation
                             = <<"That's not correct. You chose '">>
                                 \o quiz_answer[r].answer
                                 \o <<"', but the correct answer is '">>
                                 \o question.mcq_options[first].text
                                 \o <<"'.\n\n">>
                                 \o <<"The correct answer addresses the key concept in the question more accurately.">>

\* A wrong choice answered after its explanatory call raised, beside one
\* answered after the call succeeded.
C22_Witness ==
    \E r, o \in Requests :
        /\ MCQResponse(r) /\ MCQResponse(o)
        /\ WrongChoice(QuestionBank[find_question(quiz_answer[r].question_id)],
                       quiz_answer[r].answer)
        /\ Len(observed[r].calls) = 1 /\ ~observed[r].calls[1].ok
        /\ WrongChoice(QuestionBank[find_question(quiz_answer[o].question_id)],
                       quiz_answer[o].answer)
        /\ Len(observed[o].calls) = 1 /\ observed[o].calls[1].ok
        /\ response[o].explanation # response[r].explanation

(***************************************************************************)
(* C23. The MCQ path is unrelated to the SAQ retry state machine: a step   *)
(* of an MCQ submission leaves the retry map as it is (no entry created,   *)
(* no count modified), the handler does not read a count for it, and its   *)
(* response has requires_retry false and hint null, whatever retry state   *)
(* the session holds.                                                      *)
(***************************************************************************)
IsMCQ(qa) ==
    /\ find_question(qa.question_id) # 0
    /\ QuestionBank[find_question(qa.question_id)].question_type = "mcq"

C23_MCQLeavesRetryMap ==
    /\ [](\A r \in Requests :
            (pc[r] = "responded" /\ IsMCQ(quiz_answer[r]))
            => /\ response[r].status = 200
               /\ ~response[r].requires_retry
               /\ response[r].hint = None
               /\ observed[r].path = "mcq"
               /\ observed[r].current_attempts = -1)
    /\ [][\A r \in Requests :
            (/\ IsMCQ(quiz_answer'[r])
             /\ \/ quiz_answer'[r] # quiz_answer[r]
                \/ pc'[r] # pc[r]
                \/ response'[r] # response[r])
            => /\ retry_attempts' = retry_attempts
               /\ granted' = granted]_vars

\* A wrong MCQ choice answered in session s1 while the session holds a used
\* retry (count 1) for an SAQ.
C23_Witness ==
    \E r \in Requests :
        /\ pc[r] = "responded" /\ IsMCQ(quiz_answer[r])
        /\ quiz_answer[r].session_id = "s1"
        /\ response[r].feedback_type = "incorrect"
        /\ Len(observed[r].calls) = 1
        /\ attempts_of(retry_attempts, <<"s1", "q1">>) = 1

(***************************************************************************)
(* C24. Within one SAQ evaluation the model calls are sequential and never *)
(* repeated: the semantic call is made once and first; a feedback call is  *)
(* made at most once and only after the semantic call returned a valid     *)
(* result; for a score of 0.9 or more no feedback call is made and the     *)
(* explanation is one of the five fixed strings.                           *)
(***************************************************************************)
IsSemanticCall(c) == c.call = "semantic"

IsFeedbackCall(c) == c.call \in {"hint", "incorrect_feedback"}

C24_CallsSequentialOnce ==
    /\ [](\A r \in Requests :
            LET calls == observed[r].calls
            IN  /\ Len(calls) <= 2
                /\ Len(calls) >= 1 => IsSemanticCall(calls[1])
                /\ Len(calls) = 2
                   => /\ calls[1].ok
                      /\ IsFeedbackCall(calls[2])
                      /\ evaluation_result[r] # NoResult
                      /\ evaluation_result[r].correctness < 90
                      /\ calls[2].call = "hint"
                         <=> evaluation_result[r].correctness >= 60
                /\ pc[r] = "semantic_evaluation" => calls = <<>>
                /\ pc[r] \in {"generate_hint", "generate_incorrect_feedback"}
                   => /\ Len(calls) = 1 /\ calls[1].ok
                      /\ evaluation_result[r] # NoResult
                /\ LLMResponse(r)
                   => /\ Len(calls) >= 1 /\ calls[1].ok
                      /\ evaluation_result[r].correctness >= 90
                         => /\ Len(calls) = 1
                            /\ \E choice \in 1..5 :
                                  response[r].explanation
                                    = generate_correct_feedback(choice)
                      /\ evaluation_result[r].correctness < 90
                         => Len(calls) = 2
                /\ (pc[r] = "responded" /\ observed[r].path = "fallback")
                   => (calls = <<>> \/ (Len(calls) = 1 /\ ~calls[1].ok)))
    /\ [][\A r \in Requests :
            LET calls == observed[r].calls
                after == observed'[r].calls
            IN  \/ after = calls
                \/ pc[r] \in {"idle", "responded"} /\ after = <<>>
                \/ /\ pc[r] = "semantic_evaluation"
                   /\ Len(after) = 1 /\ IsSemanticCall(after[1])
                \/ /\ pc[r] \in {"generate_hint", "generate_incorrect_feedback"}
                   /\ Len(after) = 2 /\ after[1] = calls[1]
                   /\ IsFeedbackCall(after[2])]_vars

\* One request answered with a fixed string after the semantic call alone,
\* beside one answered after the semantic call and then a hint call.
C24_Witness ==
    \E r, o \in Requests :
        /\ LLMResponse(r) /\ LLMResponse(o)
        /\ evaluation_result[r].correctness = 90
        /\ Len(observed[r].calls) = 1
        /\ response[r].explanation = generate_correct_feedback(5)
        /\ evaluation_result[o].correctness = 89
        /\ Len(observed[o].calls) = 2
        /\ observed[o].calls[2].call = "hint"

(***************************************************************************)
(* C25. An entry of the retry map, once created, exists in every later     *)
(* state: no step (a final verdict, the fallback path, an MCQ answer,      *)
(* POST /clear-session) removes a session key or a question key, and the   *)
(* only step that lowers a count is the reset to 0 by a correct verdict of *)
(* the LLM path for that pair.                                             *)
(***************************************************************************)
C25_EntriesNeverDeleted ==
    [][\A s \in DOMAIN retry_attempts :
         /\ s \in DOMAIN retry_attempts'
         /\ \A q \in DOMAIN retry_attempts[s] :
               /\ q \in DOMAIN retry_attempts'[s]
               /\ retry_attempts'[s][q] < retry_attempts[s][q]
                  => /\ retry_attempts'[s][q] = 0
                     /\ \E r \in Requests :
                           /\ Completes(r)
                           /\ observed'[r].path = "llm"
                           /\ response'[r].feedback_type = "correct"
                           /\ pair_of(quiz_answer[r]) = <<s, q>>]_vars

\* The logs of session s1 have been cleared (one log removed) and the pair of
\* s1 still holds its used retry, the client since answered by the fallback.
C25_Witness ==
    /\ clear_message = [session_id |-> "s1", cleared_count |-> 1]
    /\ has_entry(retry_attempts, <<"s1", "q1">>)
    /\ retry_attempts["s1"]["q1"] = 1
    /\ \E r \in Requests :
          pc[r] = "responded" /\ observed[r].path = "fallback"

(***************************************************************************)
(* C26. A response carries the final-score summary exactly when its        *)
(* next_question is null, which is exactly when the answered question is   *)
(* the last of the bank; the summary reports new_score over                *)
(* new_total_questions_answered, and otherwise next_question is the        *)
(* question that follows the answered one.                                 *)
(***************************************************************************)
LastQuestionId == QuestionBank[Len(QuestionBank)].question_id

C26_SummaryIffLastQuestion ==
    \A r \in Requests :
        (pc[r] = "responded" /\ response[r].status = 200)
        => /\ response[r].final_score # None
              <=> response[r].next_question = NoQuestion
           /\ response[r].next_question = NoQuestion
              <=> quiz_answer[r].question_id = LastQuestionId
           /\ response[r].final_score # None
              => response[r].final_score
                   = <<"Quiz Complete! Your score: ", response[r].new_score,
                       "/", response[r].new_total_questions_answered>>
           /\ response[r].next_question # NoQuestion
              => \E i \in 1..(Len(QuestionBank) - 1) :
                    /\ QuestionBank[i].question_id = quiz_answer[r].question_id
                    /\ QuestionBank[i + 1].question_id
                         = response[r].next_question

\* The last question answered correctly: the summary reports the raised score
\* over the raised count.
C26_Witness ==
    \E r \in Requests :
        /\ pc[r] = "responded" /\ response[r].status = 200
        /\ quiz_answer[r].question_id = LastQuestionId
        /\ response[r].is_correct
        /\ response[r].final_score
             = <<"Quiz Complete! Your score: ",
                 quiz_answer[r].current_score + 1, "/",
                 quiz_answer[r].total_questions_answered + 1>>

(***************************************************************************)
(* C27. Fallback determinism: two executions of the lexical fallback on    *)
(* the same student answer and the same ideal answer give the same ratio,  *)
(* the same category and the same is_correct (and the same explanation and *)
(* award), whatever the session ids, the running scores and the order of   *)
(* the two requests.                                                       *)
(***************************************************************************)
FallbackResponse(r) == pc[r] = "responded" /\ observed[r].path = "fallback"

OutOfRangeOutputs ==
    {out \in SemanticCallOutcomes :
        ~out.raises /\ (out.correctness < 0 \/ out.correctness > 100)}

C28_ScoreAlwaysInUnitInterval ==
    /\ [](\A r \in Requests :
            /\ evaluation_result[r] # NoResult
               => /\ evaluation_result[r].correctness >= 0
                  /\ evaluation_result[r].correctness <= 100
            /\ (\/ pc[r] \in {"generate_hint", "generate_incorrect_feedback"}
                \/ LLMResponse(r))
               => /\ evaluation_result[r].correctness >= 0
                  /\ evaluation_result[r].correctness <= 100)
    /\ [][\A r \in Requests :
            \A out \in OutOfRangeOutputs :
               SemanticReturns(r, out, 1)
               => /\ pc'[r] = "responded"
                  /\ observed'[r].path = "fallback"
                  /\ observed'[r].calls
                       = <<[call |-> "semantic", ok |-> FALSE]>>
                  /\ evaluation_result'[r] = NoResult
                  /\ response'[r].status = 200
                  /\ retry_attempts' = retry_attempts]_vars

\* One request graded in the LLM path on a score of 0.9 beside one whose
\* semantic call failed and that the fallback graded.
C28_Witness ==
    \E r, o \in Requests :
        /\ LLMResponse(r)
        /\ evaluation_result[r].correctness = 90
        /\ pc[o] = "responded" /\ observed[o].path = "fallback"
        /\ observed[o].calls = <<[call |-> "semantic", ok |-> FALSE]>>

(***************************************************************************)
(* C29. Every DynamicFeedback that generate_dynamic_feedback returns has   *)
(* requires_retry false when its evaluation is correct, for every score in *)
(* [0, 1] and every category the model can return with it, those that      *)
(* disagree with the band of the score included.                           *)
(***************************************************************************)
C29_CorrectFeedbackNeverRetries ==
    \A r \in Requests :
        evaluation_result[r] # NoResult
        => \A call \in TextCallOutcomes, choice \in 1..NumCorrectResponses :
              LET feedback ==
                     generate_dynamic_feedback(evaluation_result[r],
                        saq_correct_answer(QuestionBank[
                           find_question(quiz_answer[r].question_id)]),
                        choice, call)
              IN  feedback.evaluation = "correct"
                  => ~feedback.requires_retry

(***************************************************************************)
(* C30. SAQEvaluatorService keeps no retry state: the feedback that        *)
(* evaluate_saq_complete returns is the one its feedback stage computed    *)
(* from the semantic result, and its requires_retry depends on the score   *)
(* alone, so an evaluation in the partial band returns requires_retry true *)
(* again when the pair has used its retry; the cap of one retry is the     *)
(* handler's: the response keeps the flag only at count 0.                 *)
(***************************************************************************)
C30_EvaluatorKeepsNoRetryState ==
    \A r \in Requests :
        LLMResponse(r)
        => /\ \E choice \in 1..NumCorrectResponses :
                 observed[r].feedback
                   = generate_dynamic_feedback(evaluation_result[r],
                        saq_correct_answer(QuestionBank[
                           find_question(quiz_answer[r].question_id)]),
                        choice,
                        IF Len(observed[r].calls) = 2
                           /\ ~observed[r].calls[2].ok
                        THEN "raise" ELSE "ok")
           /\ observed[r].feedback.requires_retry
              <=> (/\ evaluation_result[r].correctness >= 60
                   /\ evaluation_result[r].correctness < 90)
           /\ observed[r].feedback.evaluation
                = evaluation_result[r].feedback_category
           /\ response[r].requires_retry
              <=> (/\ observed[r].feedback.requires_retry
                   /\ observed[r].feedback.evaluation = "partially_correct"
                   /\ observed[r].current_attempts = 0)

\* Two partially_correct evaluations of the same pair: the evaluator returned
\* requires_retry true for both, the handler granted the retry to one (count
\* read 0) and gave the other the final verdict (count read 1).
C30_Witness ==
    \E r, o \in Requests :
        /\ LLMResponse(r) /\ LLMResponse(o)
        /\ pair_of(quiz_answer[r]) = pair_of(quiz_answer[o])
        /\ observed[r].feedback.evaluation = "partially_correct"
        /\ observed[o].feedback.evaluation = "partially_correct"
        /\ observed[r].feedback.requires_retry
        /\ observed[o].feedback.requires_retry
        /\ observed[r].current_attempts = 0 /\ response[r].requires_retry
        /\ observed[o].current_attempts = 1 /\ ~response[o].requires_retry

(***************************************************************************)
(* C31. A retry becomes available again for a pair only through a correct  *)
(* verdict: a count of 1 stays 1 across every step except the response of  *)
(* an LLM-path request of that pair with feedback_type correct, which sets *)
(* it to 0; a response with requires_retry true is given only at count 0   *)
(* and leaves the count at 1. So between two responses with requires_retry *)
(* true for one pair there is a correct LLM-path response for it.          *)
(***************************************************************************)
CorrectVerdictFor(p) ==
    \E r \in Requests :
        /\ Completes(r)
        /\ observed'[r].path = "llm"
        /\ response'[r].feedback_type = "correct"
        /\ pair_of(quiz_answer[r]) = p

C31_RetryReopensOnlyByCorrect ==
    [][/\ \A p \in Pairs :
             attempts_of(retry_attempts, p) = 1
             => IF CorrectVerdictFor(p)
                THEN attempts_of(retry_attempts', p) = 0
                ELSE attempts_of(retry_attempts', p) = 1
       /\ \A r \in Requests :
             (Completes(r) /\ response'[r].requires_retry)
             => /\ attempts_of(retry_attempts, pair_of(quiz_answer[r])) = 0
                /\ attempts_of(retry_attempts', pair_of(quiz_answer[r])) = 1
                /\ ~CorrectVerdictFor(pair_of(quiz_answer[r]))]_vars

\* The count of a pair is 1 after one of its requests was graded by the
\* fallback and another got the final verdict on a retry-eligible
\* partially_correct evaluation.
C31_Witness ==
    \E r, o \in Requests :
        /\ pair_of(quiz_answer[r]) = pair_of(quiz_answer[o])
        /\ FallbackResponse(r)
        /\ LLMResponse(o)
        /\ response[o].feedback_type = "partially_correct"
        /\ RetryEligible(evaluation_result[o])
        /\ observed[o].current_attempts = 1
        /\ ~response[o].requires_retry
        /\ attempts_of(retry_attempts, pair_of(quiz_answer[o])) = 1

(***************************************************************************)
(* C32. When two requests of one pair are in flight, both evaluated        *)
(* partially_correct and retry-eligible while the count is 0, the retry    *)
(* goes to the one whose evaluation completes first, whichever was         *)
(* received first: each of the two can complete next and is then granted   *)
(* the retry, leaving the count at 1 for the other. So the request         *)
(* received second can take the retry from the one received first.         *)
(***************************************************************************)
C32_RetryGoesToFirstCompleted ==
    /\ [](\A r \in Requests :
            InRace(r)
            => ENABLED (/\ FeedbackReturns(r, "ok")
                        /\ response'[r].requires_retry))
    /\ [][\A r \in Requests :
            (InRace(r) /\ Completes(r))
            => /\ observed'[r].current_attempts = 0
               /\ response'[r].requires_retry
               /\ attempts_of(retry_attempts', pair_of(quiz_answer[r])) = 1
               /\ \A o \in Requests \ {r} :
                     (InRace(o)
                      /\ pair_of(quiz_answer[o]) = pair_of(quiz_answer[r]))
                     => /\ pc'[o] = "generate_hint"
                        /\ ~InRace(o)']_vars

\* Request 2, received while request 1 was waiting, was granted the retry;
\* request 1, received first, read the count 1 and got the final verdict.
C32_Witness ==
    /\ {1, 2} \subseteq raced
    /\ pair_of(quiz_answer[1]) = pair_of(quiz_answer[2])
    /\ LLMResponse(2) /\ response[2].requires_retry
    /\ observed[2].current_attempts = 0
    /\ LLMResponse(1) /\ ~response[1].requires_retry
    /\ response[1].feedback_type = "partially_correct"
    /\ observed[1].current_attempts = 1

(***************************************************************************)
(* C33. A request changes the attempt count of no pair but its own         *)
(* (session, question), under any interleaving: whenever the count or the  *)
(* entry of a pair changes, a request of that pair has just responded      *)
(* through the model path. A request graded by the lexical fallback        *)
(* leaves the whole retry map as it is (no count changed, no entry         *)
(* created), so a model failure while the retry is open neither consumes   *)
(* nor restores it.                                                        *)
(***************************************************************************)
JustAnswered(r) ==
    /\ pc'[r] = "responded"
    /\ \/ pc[r] # "responded"
       \/ observed'[r] # observed[r]
       \/ response'[r] # response[r]

C33_OnlyOwnPairChanges ==
    [][/\ \A p \in Pairs :
            (\/ attempts_of(retry_attempts', p) # attempts_of(retry_attempts, p)
             \/ has_entry(retry_attempts', p) # has_entry(retry_attempts, p))
            => \E r \in Requests :
                  /\ JustAnswered(r)
                  /\ observed'[r].path = "llm"
                  /\ pair_of(quiz_answer[r]) = p
       /\ \A r \in Requests :
            (JustAnswered(r) /\ observed'[r].path = "fallback")
            => retry_attempts' = retry_attempts]_vars

\* A request of q1 was graded by the fallback while the pair's retry was
\* taken (count 1) and the session's other question has its own entry; and
\* a request was graded by the fallback before its pair had any entry.
C33_Witness ==
    \E r \in Requests :
        /\ pc[r] = "responded" /\ observed[r].path = "fallback"
        /\ pair_of(quiz_answer[r]) = <<"s1", "q1">>
        /\ attempts_of(retry_attempts, <<"s1", "q1">>) = 1
        /\ <<"s1", "q1">> \in granted
        /\ has_entry(retry_attempts, <<"s1", "q3">>)
        /\ attempts_of(retry_attempts, <<"s1", "q3">>) = 0

(***************************************************************************)
(* C34. Every request that finds its question returns                      *)
(* new_total_questions_answered = total_questions_answered + 1, a response *)
(* with requires_retry = true included. For a client that echoes the       *)
(* returned counters, a question answered through a retry is therefore     *)
(* counted twice: the denominator of the closing summary is the number of  *)
(* questions of the bank plus the number of retries the client was         *)
(* granted, and so can exceed the number of questions.                     *)
(***************************************************************************)
C34_EveryResponseCountsOne ==
    \A r \in Requests :
        (pc[r] = "responded" /\ response[r].status = 200)
        => /\ response[r].new_total_questions_answered
                = quiz_answer[r].total_questions_answered + 1
           /\ (response[r].final_score # None /\ ~response[r].requires_retry)
              => response[r].final_score[4]
                    = Len(QuestionBank) + Cardinality(granted)

\* The quiz was closed with a summary whose denominator exceeds the number
\* of questions, after a retry on the first question.
C34_Witness ==
    /\ pc[1] = "responded"
    /\ response[1].final_score # None
    /\ ~response[1].requires_retry
    /\ response[1].final_score[4] > Len(QuestionBank)
    /\ <<"s1", "q1">> \in granted

(***************************************************************************)
(* C35. In every response the hint is non-null exactly when requires_retry *)
(* is true, and it then equals the explanation; final verdicts of the      *)
(* model path, fallback verdicts and MCQ verdicts have a null hint.        *)
(***************************************************************************)
C35_HintIffRetry ==
    \A r \in Requests :
        (pc[r] = "responded" /\ response[r].status = 200)
        => /\ (response[r].hint # None) <=> response[r].requires_retry
           /\ response[r].requires_retry
              => /\ response[r].hint = response[r].explanation
                 /\ observed[r].path = "llm"
           /\ observed[r].path \in {"fallback", "mcq"}
              => response[r].hint = None
           /\ (observed[r].path = "llm" /\ observed[r].current_attempts > 0)
              => response[r].hint = None

\* A retry response carrying the model's text as hint and as explanation.
C35_Witness ==
    \E r \in Requests :
        /\ pc[r] = "responded" /\ observed[r].path = "llm"
        /\ response[r].feedback_type = "partially_correct"
        /\ response[r].requires_retry
        /\ response[r].hint = ModelText
        /\ response[r].explanation = ModelText

(***************************************************************************)
(* C36. The ratio of the lexical fallback lies in [0, 1]. When the         *)
(* reference answer holds no word outside the stop words, the ratio is 1   *)
(* if the lowercased, stripped student answer is a substring of the        *)
(* lowercased reference answer and 0 otherwise; an empty student answer is *)
(* then graded correct and awarded the point.                              *)
(***************************************************************************)
NoMeaningfulWords(correct_answer) ==
    split_set(strip(lower(correct_answer))) \ stop_words = {}

C36_FallbackRatioAndSimpleMatching ==
    \A r \in Requests :
        FallbackResponse(r)
        => LET ratio == observed[r].ratio
               answer == quiz_answer[r].answer
               correct_answer == response[r].correct_answer
           IN  /\ ratio[2] > 0
               /\ 0 <= ratio[1] /\ ratio[1] <= ratio[2]
               /\ NoMeaningfulWords(correct_answer)
                  => /\ ratio = IF is_substring(strip(lower(answer)),
                                                lower(correct_answer))
                                THEN <<1, 1>> ELSE <<0, 1>>
                     /\ strip(answer) = <<>>
                        => /\ ratio = <<1, 1>>
                           /\ response[r].is_correct
                           /\ response[r].feedback_type = "correct"
                           /\ response[r].new_score
                                 = quiz_answer[r].current_score + 1

\* An empty answer graded correct against a reference answer of stop words,
\* and beside it an answer that is no part of that reference, graded 0.
C36_Witness ==
    \E r \in Requests, o \in Requests :
        /\ FallbackResponse(r) /\ FallbackResponse(o)
        /\ response[r].correct_answer = ToBe
        /\ quiz_answer[r].answer = Empty
        /\ response[r].is_correct
        /\ response[o].correct_answer = ToBe
        /\ quiz_answer[o].answer = Gas
        /\ observed[o].ratio = <<0, 1>>
        /\ ~response[o].is_correct

(***************************************************************************)
(* C40. After ConnectionManager.connect(websocket, course_id) the          *)
(* websocket is a member of active_connections[course_id], so that a later *)
(* send_item_update(course_id, data) sends the data to it, for the first   *)
(* connection of a course as for further ones.                             *)
(***************************************************************************)
C40_ConnectRegistersWebsocket ==
    /\ [][\A w \in Connections :
            (/\ course_handlers[w].pc = "accept"
             /\ course_handlers'[w].pc # "accept")
            => /\ course_handlers'[w].pc = "receive"
               /\ course_handlers[w].course_id \in DOMAIN active_connections'
               /\ w \in active_connections'[course_handlers[w].course_id]]_vars
    /\ [][\A w \in Connections :
            (/\ item_update' # item_update
             /\ item_update'.course_id \in DOMAIN active_connections
             /\ w \in active_connections[item_update'.course_id])
            => \/ w \in item_update'.sent_to
               \/ item_update'.course_id \notin DOMAIN active_connections'
               \/ w \notin active_connections'[item_update'.course_id]]_vars

=============================================================================
